---- MODULE Spec2Model ----
(***************************************************************************)
(* A model of quicktex-rs: the shaped texture tree (src/shape.rs), the     *)
(* dimensions and mip chain (src/dimensions.rs), the DDS pixel format and  *)
(* header codecs (src/container/dds/pixel_format.rs, src/dds/mod.rs) and    *)
(* the surface reader / writer driver (src/dds/mod.rs).                    *)
(***************************************************************************)
EXTENDS Integers, Sequences, FiniteSets, TLC

VARIABLES
    tex,        \* shape calls: the caller's texture tree
    last,       \* shape calls: the call that has just returned
    pixel,      \* pixel format round trip: the value, its record, the value read back
    infile,     \* DDS: the file given to the reader, [header, data]
    header,     \* DDS: the DDSHeader read
    texture,    \* DDS: the Texture read, [format, surfaces]
    cursor,     \* DDS: the reader's position and the reads it has done
    outfile,    \* DDS: the file written, [mode, header, data]
    calls,      \* DDS: the calls that have returned, in order, each [op, arg, res]
    iter,       \* dimensions: the MipDimensionIterator's current, with what it has
                \* yielded, whether it has returned None, and the runs completed
    pc          \* DDS: how far the round trip has come

vars == <<tex, last, pixel, infile, header, texture, cursor, outfile, calls, iter, pc>>

(***************************************************************************)
(* Bounds of the model.                                                    *)
(***************************************************************************)
\* largest width, height, depth and mipmap_count of a DDS header record
MaxWidth == 4
MaxHeight == 2
MaxDepth == 2
MaxMipCount == 3
\* largest array_size of a DX10 header record
MaxLayers == 2
\* most bytes after the header of a DDS file
MaxStream == 120
\* largest pitch, in bytes, of an uncompressed pixel format
MaxPitch == 4
\* largest value and most values of a list a Dimensions is made of
MaxAxis == 5
MaxArity == 4
MaxRuns == 2
\* largest width / height of a surface handed to the shape constructors
MaxDim == 2
\* most children handed to one try_from_* call
MaxChildren == 2
\* most nodes of a tree kept in the pool
MaxNodes == 7
\* how many of the six cube faces the callers use as keys
NumFaces == 2

(***************************************************************************)
(* Option<T>: None is the empty sequence, Some(x) the one-element one.     *)
(***************************************************************************)
None == <<>>
Some(x) == <<x>>

Max(a, b) == IF a >= b THEN a ELSE b

SeqRange(s) == {s[i] : i \in DOMAIN s}

\* all sequences over S of length 0..n
RECURSIVE SeqsUpTo(_, _)
SeqsUpTo(S, n) ==
    IF n = 0 THEN {<<>>}
    ELSE LET shorter == SeqsUpTo(S, n - 1)
         IN  shorter \cup {Append(s, x) : s \in {t \in shorter : Len(t) = n - 1}, x \in S}

\* the permutations of 1..n, as sequences
PermsOf(n) == {p \in [1..n -> 1..n] : \A i, j \in 1..n : p[i] = p[j] => i = j}

(***************************************************************************)
(* CubeFace: repr(usize), so a face is its discriminant 0..5.              *)
(***************************************************************************)
PositiveX == 0
NegativeX == 1
PositiveY == 2
NegativeY == 3
PositiveZ == 4
NegativeZ == 5
CubeFaceVariants == <<PositiveX, NegativeX, PositiveY, NegativeY, PositiveZ, NegativeZ>>

(***************************************************************************)
(* Dimensions: a sequence of 1, 2 or 3 positive integers.                  *)
(***************************************************************************)
\* MipDimensionIterator::next, collected: self, then every axis halved
\* (floor, at least 1) until the element whose axes are all <= 1 is yielded.
RECURSIVE DimensionsMips(_)
DimensionsMips(d) ==
    IF \A i \in DOMAIN d : d[i] <= 1
    THEN <<d>>
    ELSE <<d>> \o DimensionsMips([i \in DOMAIN d |-> Max(d[i] \div 2, 1)])

(***************************************************************************)
(* TextureShapeNode<S>.  A CubeMap is a HashMap: its iteration order is    *)
(* not specified, so the node carries the order its map happens to have    *)
(* (keys[i] is the key of ch[i]); a freshly built map takes any order.     *)
(***************************************************************************)
NoTexture == [kind |-> "None", dims |-> <<>>, buf |-> <<>>, keys |-> <<>>, ch |-> <<>>]
Surface(d, b) == [kind |-> "Surface", dims |-> d, buf |-> b, keys |-> <<>>, ch |-> <<>>]
MipMap(c) == [kind |-> "MipMap", dims |-> <<>>, buf |-> <<>>, keys |-> <<>>, ch |-> c]
CubeMap(k, c) == [kind |-> "CubeMap", dims |-> <<>>, buf |-> <<>>, keys |-> k, ch |-> c]
Array(c) == [kind |-> "Array", dims |-> <<>>, buf |-> <<>>, keys |-> <<>>, ch |-> c]

\* ShapeResult / Option results of the operations
Ok(t) == [tag |-> "Ok", err |-> "", val |-> t]
Err(e) == [tag |-> "Err", err |-> e, val |-> NoTexture]
SomeT(t) == [tag |-> "Some", err |-> "", val |-> t]
NoneT == [tag |-> "None", err |-> "", val |-> NoTexture]
Panic(e) == [tag |-> "Panic", err |-> e, val |-> NoTexture]

first_inner(t) == t.ch[1]

RECURSIVE dimensions(_)
dimensions(t) == IF t.kind = "Surface" THEN t.dims ELSE dimensions(first_inner(t))

RECURSIVE mips(_)
mips(t) ==
    CASE t.kind = "Surface" -> None
      [] t.kind = "MipMap" -> Some(Len(t.ch))
      [] OTHER -> mips(first_inner(t))

RECURSIVE layers(_)
layers(t) ==
    CASE t.kind = "Surface" -> None
      [] t.kind = "Array" -> Some(Len(t.ch))
      [] OTHER -> layers(first_inner(t))

\* faces.keys().cloned().collect(): the keys in the map's iteration order
RECURSIVE faces(_)
faces(t) ==
    CASE t.kind = "Surface" -> None
      [] t.kind = "CubeMap" -> Some(t.keys)
      [] OTHER -> faces(first_inner(t))

\* iter.map(f).all_equal() over the values vs[1..n]
uniformity_check(vs) == \A i, j \in DOMAIN vs : vs[i] = vs[j]

\* variant of nesting_check that never finds a nested structure
nesting_check_skipped(vs) == FALSE

\* iter.map(f).flatten().next().is_some(): TRUE when the check FAILS (nesting found)
nesting_check(vs) == \E i \in DOMAIN vs : vs[i] # None

MapSeq(s, Op(_)) == [i \in DOMAIN s |-> Op(s[i])]

\* variant of MipChainEq that accepts any dimensions
MipChainEq_skipped(cs) == TRUE

\* mips.iter().map(Self::dimensions).eq(dimensions.mips())
MipChainEq(cs) == MapSeq(cs, dimensions) = DimensionsMips(dimensions(cs[1]))

\* variant of try_from_mips that looks for nested mipmaps before anything else
try_from_mips_nested_first(cs) ==
    IF Len(cs) = 0 THEN Err("Empty(mipmap)")
    ELSE IF nesting_check(MapSeq(cs, mips)) THEN Err("Nested(mipmap)")
    ELSE IF ~MipChainEq(cs) THEN Err("InvalidMipChain")
    ELSE IF ~uniformity_check(MapSeq(cs, layers)) THEN Err("NonUniform(layers)")
    ELSE IF ~uniformity_check(MapSeq(cs, faces)) THEN Err("NonUniform(faces)")
    ELSE Ok(MipMap(cs))

try_from_mips(cs) ==
    IF Len(cs) = 0 THEN Err("Empty(mipmap)")
    ELSE IF ~MipChainEq(cs) THEN Err("InvalidMipChain")
    ELSE IF ~uniformity_check(MapSeq(cs, layers)) THEN Err("NonUniform(layers)")
    ELSE IF ~uniformity_check(MapSeq(cs, faces)) THEN Err("NonUniform(faces)")
    ELSE IF nesting_check(MapSeq(cs, mips)) THEN Err("Nested(mipmap)")
    ELSE Ok(MipMap(cs))

\* variant of HasDuplicate that lets a repeated key through
HasDuplicate_skipped(ks) == FALSE

\* the faces are inserted one by one; the first repeated key ends the loop
HasDuplicate(ks) == \E i, j \in DOMAIN ks : i # j /\ ks[i] = ks[j]

\* every outcome try_from_faces can have for the pairs (ks[i], cs[i])
try_from_faces(ks, cs) ==
    IF HasDuplicate(ks) THEN {Err("DuplicateFaces")}
    ELSE IF Len(ks) = 0 THEN {Err("Empty(cube)")}
    ELSE IF ~uniformity_check(MapSeq(cs, dimensions)) THEN {Err("NonUniform(dimensions)")}
    ELSE IF ~uniformity_check(MapSeq(cs, mips)) THEN {Err("NonUniform(mips)")}
    ELSE IF ~uniformity_check(MapSeq(cs, layers)) THEN {Err("NonUniform(layers)")}
    ELSE IF nesting_check(MapSeq(cs, faces)) THEN {Err("Nested(cube)")}
    ELSE {Ok(CubeMap([i \in DOMAIN ks |-> ks[p[i]]], [i \in DOMAIN cs |-> cs[p[i]]])) :
             p \in PermsOf(Len(ks))}

try_from_layers(cs) ==
    IF Len(cs) = 0 THEN Err("Empty(array)")
    ELSE IF ~uniformity_check(MapSeq(cs, dimensions)) THEN Err("NonUniform(dimensions)")
    ELSE IF ~uniformity_check(MapSeq(cs, mips)) THEN Err("NonUniform(mips)")
    ELSE IF ~uniformity_check(MapSeq(cs, faces)) THEN Err("NonUniform(faces)")
    ELSE IF nesting_check(MapSeq(cs, layers)) THEN Err("Nested(array)")
    ELSE Ok(Array(cs))

(***************************************************************************)
(* TextureIndex: [kind, i] with kind "Face", "Mip" or "Layer"; i is the    *)
(* face's discriminant or the mip / layer number.                          *)
(***************************************************************************)
Face(f) == [kind |-> "Face", i |-> f]
Mip(m) == [kind |-> "Mip", i |-> m]
Layer(l) == [kind |-> "Layer", i |-> l]
NoIndex == [kind |-> "", i |-> 0]

\* position of key f in a cube map's keys (0 when absent)
KeyPos(t, f) == IF \E j \in DOMAIN t.keys : t.keys[j] = f
                THEN CHOOSE j \in DOMAIN t.keys : t.keys[j] = f
                ELSE 0

\* .collect::<Option<_>>() over per-child outcome sets: every way to pick one
\* outcome per child; the first child that is not Some decides the whole.
CollectOutcomes(outs) ==
    LET n == Len(outs)
        all == UNION {outs[j] : j \in 1..n}
    IN  {f \in [1..n -> all] : \A j \in 1..n : f[j] \in outs[j]}

FirstFailure(f) ==
    IF \E j \in DOMAIN f : f[j].tag # "Some"
    THEN f[CHOOSE j \in DOMAIN f : f[j].tag # "Some" /\ \A k \in 1..(j - 1) : f[k].tag = "Some"]
    ELSE NoneT

AllSome(f) == \A j \in DOMAIN f : f[j].tag = "Some"

\* variant of SelectSingle that wraps the selected child in a one-element node
SelectSingle_wrapped(single, inner) ==
    IF inner # None THEN Panic("assert_eq") ELSE SomeT(MipMap(<<single>>))

\* mips.get(m)?.as_slice() is the one-element slice [single]: the selected
\* child itself is returned, after the assert that it has no such structure left
SelectSingle(single, inner) ==
    IF inner # None THEN Panic("assert_eq") ELSE SomeT(single)

\* every outcome get(index) can have on t: None, Some(tree), or the panic of
\* the assert_eq! on a selected child that still has the sliced structure.
RECURSIVE get(_, _)
get(t, index) ==
    CASE t.kind = "Surface" -> {NoneT}
      [] t.kind = "CubeMap" /\ index.kind = "Face" ->
            IF KeyPos(t, index.i) = 0 THEN {NoneT} ELSE {SomeT(t.ch[KeyPos(t, index.i)])}
      [] t.kind = "CubeMap" /\ index.kind # "Face" ->
            LET combos == CollectOutcomes([j \in DOMAIN t.ch |-> get(t.ch[j], index)])
            IN  UNION {IF AllSome(f)
                       THEN {SomeT(CubeMap([j \in DOMAIN f |-> t.keys[p[j]]],
                                           [j \in DOMAIN f |-> f[p[j]].val])) :
                                p \in PermsOf(Len(f))}
                       ELSE {FirstFailure(f)} : f \in combos}
      [] t.kind = "MipMap" /\ index.kind = "Mip" ->
            IF index.i >= Len(t.ch) THEN {NoneT}
            ELSE {SelectSingle(t.ch[index.i + 1], mips(t.ch[index.i + 1]))}
      [] t.kind = "MipMap" /\ index.kind # "Mip" ->
            LET combos == CollectOutcomes([j \in DOMAIN t.ch |-> get(t.ch[j], index)])
            IN  {IF AllSome(f) THEN SomeT(MipMap([j \in DOMAIN f |-> f[j].val]))
                 ELSE FirstFailure(f) : f \in combos}
      [] t.kind = "Array" /\ index.kind = "Layer" ->
            IF index.i >= Len(t.ch) THEN {NoneT}
            ELSE {SelectSingle(t.ch[index.i + 1], layers(t.ch[index.i + 1]))}
      [] t.kind = "Array" /\ index.kind # "Layer" ->
            LET combos == CollectOutcomes([j \in DOMAIN t.ch |-> get(t.ch[j], index)])
            IN  {IF AllSome(f) THEN SomeT(Array([j \in DOMAIN f |-> f[j].val]))
                 ELSE FirstFailure(f) : f \in combos}

(***************************************************************************)
(* Dimensions (src/dimensions.rs): a sequence of one to three positive     *)
(* u32, <<width>>, <<width, height>> or <<width, height, depth>>.          *)
(***************************************************************************)
Min(a, b) == IF a <= b THEN a ELSE b

\* x * 8 as a u32: the low 32 bits of the product, which are those of
\* (x mod 2^29) * 8
Overflows8(x) == x >= 536870912
WrappingMul8(x) == (x % 536870912) * 8

Take(s, n) == SubSeq(s, 1, Min(n, Len(s)))

DIMENSION_NAMES == <<"width", "height", "depth">>

\* DimensionError::Invalid(name, _), by the place of the name
InvalidAxis == <<"Invalid(width)", "Invalid(height)", "Invalid(depth)">>

\* TryFrom<&[u32]>: the values are zipped with the three axis names, which
\* drops every value after the third; the first zero among them is
\* Invalid(name), no value at all is Dimensionality(0)
DimensionsTryFrom(value) ==
    LET inner == Take(value, Len(DIMENSION_NAMES))
    IN  IF \E i \in DOMAIN inner : inner[i] = 0
        THEN Err(InvalidAxis[CHOOSE i \in DOMAIN inner :
                                inner[i] = 0 /\ \A j \in 1..(i - 1) : inner[j] # 0])
        ELSE IF Len(inner) = 0 THEN Err("Dimensionality")
        ELSE Ok(inner)

width(d) == d[1]
height(d) == IF Len(d) >= 2 THEN d[2] ELSE 1
depth(d) == IF Len(d) >= 3 THEN d[3] ELSE 1

RECURSIVE product(_)
product(d) == IF Len(d) = 0 THEN 1 ELSE d[1] * product(Tail(d))

\* (a division that rounds down, and leaves the axes without block axis out)
blocks_floor(d, block) ==
    [i \in 1..Min(Len(d), Len(block)) |-> d[i] \div block[i]]

\* zip_longest of the axes and the block's axes, a missing one counting as 1
blocks(d, block) ==
    [i \in 1..Max(Len(d), Len(block)) |->
        LET size == IF i <= Len(d) THEN d[i] ELSE 1
            bsize == IF i <= Len(block) THEN block[i] ELSE 1
        IN  (size + (bsize - 1)) \div bsize]

(***************************************************************************)
(* Format, ColorFormat, AlphaFormat (src/format.rs).                       *)
(***************************************************************************)
ColorNone == [kind |-> "None", masks |-> <<0, 0, 0>>, srgb |-> FALSE]
RGB(r, g, b, srgb) == [kind |-> "RGB", masks |-> <<r, g, b>>, srgb |-> srgb]
YUV(y, u, v) == [kind |-> "YUV", masks |-> <<y, u, v>>, srgb |-> FALSE]
L(l) == [kind |-> "L", masks |-> <<l, 0, 0>>, srgb |-> FALSE]

Opaque == [kind |-> "Opaque", alpha_mask |-> 0]
Custom(m) == [kind |-> "Custom", alpha_mask |-> m]
Straight(m) == [kind |-> "Straight", alpha_mask |-> m]
Premultiplied(m) == [kind |-> "Premultiplied", alpha_mask |-> m]

\* BC1..BC3 carry srgb, BC4 and BC5 signed: the flag
FormatBC(tag, flag) ==
    [tag |-> tag, flag |-> flag, pitch |-> 0, color_format |-> ColorNone, alpha_format |-> Opaque]
FormatUncompressed(pitch, color_format, alpha_format) ==
    [tag |-> "Uncompressed", flag |-> FALSE, pitch |-> pitch,
     color_format |-> color_format, alpha_format |-> alpha_format]

size_for(format, d) ==
    CASE format.tag \in {"BC1", "BC4"} -> 8 * product(blocks(d, <<4, 4>>))
      [] format.tag \in {"BC2", "BC3", "BC5"} -> 16 * product(blocks(d, <<4, 4>>))
      [] OTHER -> format.pitch * product(d)

(***************************************************************************)
(* PixelFormat and its on-disk record (src/container/dds/pixel_format.rs). *)
(***************************************************************************)
PixelFormatFlags == {"AlphaPixels", "Alpha", "FourCC", "RGB", "YUV", "Luminance"}

\* FourCC::default(): four zero bytes
NoFourCC == "\\0\\0\\0\\0"

PixelFormatIntermediate(flags, four_cc, bit_count, bitmasks) ==
    [flags |-> flags, four_cc |-> four_cc, bit_count |-> bit_count, bitmasks |-> bitmasks]

PixelFormatFourCC(four_cc) ==
    [tag |-> "FourCC", four_cc |-> four_cc, bit_count |-> 0,
     color_format |-> ColorNone, alpha_format |-> Opaque]
PixelFormatUncompressed(bit_count, color_format, alpha_format) ==
    [tag |-> "Uncompressed", four_cc |-> NoFourCC, bit_count |-> bit_count,
     color_format |-> color_format, alpha_format |-> alpha_format]

\* BitFlags::from_bits_truncate: bits that are no flag are dropped
from_bits_truncate(flags) == flags \cap PixelFormatFlags

\* (the color format taken from YUV before RGB, the alpha from AlphaPixels only)
PixelFormatFrom_yuv_first(value) ==
    IF "FourCC" \in value.flags THEN PixelFormatFourCC(value.four_cc)
    ELSE LET alpha_format ==
                 IF "AlphaPixels" \in value.flags THEN Custom(value.bitmasks[4])
                 ELSE Opaque
             color_format ==
                 IF "YUV" \in value.flags
                 THEN YUV(value.bitmasks[1], value.bitmasks[2], value.bitmasks[3])
                 ELSE IF "RGB" \in value.flags
                 THEN RGB(value.bitmasks[1], value.bitmasks[2], value.bitmasks[3], FALSE)
                 ELSE IF "Luminance" \in value.flags THEN L(value.bitmasks[1])
                 ELSE ColorNone
         IN  PixelFormatUncompressed(value.bit_count, color_format, alpha_format)

\* From<PixelFormatIntermediate> for PixelFormat
PixelFormatFrom(value) ==
    IF "FourCC" \in value.flags THEN PixelFormatFourCC(value.four_cc)
    ELSE LET alpha_format ==
                 IF "Alpha" \in value.flags THEN Custom(value.bitmasks[4])
                 ELSE IF "AlphaPixels" \in value.flags THEN Custom(value.bitmasks[4])
                 ELSE Opaque
             color_format ==
                 IF "RGB" \in value.flags
                 THEN RGB(value.bitmasks[1], value.bitmasks[2], value.bitmasks[3], FALSE)
                 ELSE IF "YUV" \in value.flags
                 THEN YUV(value.bitmasks[1], value.bitmasks[2], value.bitmasks[3])
                 ELSE IF "Luminance" \in value.flags THEN L(value.bitmasks[1])
                 ELSE ColorNone
         IN  PixelFormatUncompressed(value.bit_count, color_format, alpha_format)

\* From<PixelFormat> for PixelFormatIntermediate: every outcome; pitch * 8 is
\* a u32 product, which panics on overflow in a checked build and wraps in an
\* unchecked one
PixelFormatIntermediateFrom(value) ==
    IF value.tag = "FourCC"
    THEN {Ok(PixelFormatIntermediate({"FourCC"}, value.four_cc, 0, <<0, 0, 0, 0>>))}
    ELSE LET pitch == value.bit_count
             color_flag ==
                 CASE value.color_format.kind = "RGB" -> {"RGB"}
                   [] value.color_format.kind = "YUV" -> {"YUV"}
                   [] value.color_format.kind = "L" -> {"Luminance"}
                   [] OTHER -> {}
             alpha_flag ==
                 IF value.alpha_format.kind = "Opaque" THEN {} ELSE {"AlphaPixels"}
             bitmasks == value.color_format.masks \o <<value.alpha_format.alpha_mask>>
             record == PixelFormatIntermediate(color_flag \cup alpha_flag, NoFourCC,
                                               WrappingMul8(pitch), bitmasks)
         IN  IF ~Overflows8(pitch) THEN {Ok(record)}
             ELSE {Ok(record), Panic("attempt to multiply with overflow")}

\* TryFrom<PixelFormat> for Format
FormatTryFrom(pf) ==
    IF pf.tag = "FourCC"
    THEN CASE pf.four_cc = "DX10" -> Err("Format")
           [] pf.four_cc = "DXT1" -> Ok(FormatBC("BC1", FALSE))
           [] pf.four_cc = "DXT3" -> Ok(FormatBC("BC2", FALSE))
           [] pf.four_cc = "DXT5" -> Ok(FormatBC("BC3", FALSE))
           [] pf.four_cc = "BC4U" -> Ok(FormatBC("BC4", FALSE))
           [] pf.four_cc = "BC4S" -> Ok(FormatBC("BC4", TRUE))
           [] pf.four_cc \in {"ATI2", "BC5U"} -> Ok(FormatBC("BC5", FALSE))
           [] pf.four_cc = "BC5S" -> Ok(FormatBC("BC5", TRUE))
           [] OTHER -> Err("Format")
    ELSE IF pf.bit_count % 8 # 0 THEN Err("Format")
    ELSE Ok(FormatUncompressed(pf.bit_count \div 8, pf.color_format, pf.alpha_format))

\* TryFrom<Format> for PixelFormat
PixelFormatTryFrom(format) ==
    CASE format.tag = "BC1" -> Ok(PixelFormatFourCC("DXT1"))
      [] format.tag = "BC2" -> Ok(PixelFormatFourCC("DXT3"))
      [] format.tag = "BC3" -> Ok(PixelFormatFourCC("DXT5"))
      [] format.tag = "BC4" -> Ok(PixelFormatFourCC(IF format.flag THEN "BC4S" ELSE "BC4U"))
      [] format.tag = "BC5" -> Ok(PixelFormatFourCC(IF format.flag THEN "BC5S" ELSE "ATI2"))
      [] format.tag = "Uncompressed" ->
            Ok(PixelFormatUncompressed(WrappingMul8(format.pitch),
                                       format.color_format, format.alpha_format))
      [] OTHER -> Err("Format")

\* every outcome: pitch as u32 * 8 panics on overflow in a checked build and
\* wraps in an unchecked one
PixelFormatTryFromOutcomes(format) ==
    {PixelFormatTryFrom(format)}
        \cup (IF format.tag = "Uncompressed" /\ Overflows8(format.pitch)
              THEN {Panic("attempt to multiply with overflow")} ELSE {})

is_dx10(pf) == pf.tag = "FourCC" /\ pf.four_cc = "DX10"
dx10 == PixelFormatFourCC("DX10")

(***************************************************************************)
(* The DDS header record (src/dds/header.rs) and the normalized DDSHeader  *)
(* (src/dds/mod.rs).  Bit sets are sets of flag names; a bit that is no    *)
(* flag of the set is the name "Unknown".                                  *)
(***************************************************************************)
DDSFlags == {"Caps", "Height", "Width", "Pitch", "PixelFormat", "MipmapCount",
             "LinearSize", "Depth"}
Caps1 == {"Complex", "Mipmap", "Texture"}
\* the Caps2 flags, in the order of their bits
Caps2 == <<"Cubemap", "CubemapPositiveX", "CubemapNegativeX", "CubemapPositiveY",
           "CubemapNegativeY", "CubemapPositiveZ", "CubemapNegativeZ", "Volume">>

CAPS_CUBEMAP_MAP ==
    << <<"CubemapPositiveX", PositiveX>>, <<"CubemapNegativeX", NegativeX>>,
       <<"CubemapPositiveY", PositiveY>>, <<"CubemapNegativeY", NegativeY>>,
       <<"CubemapPositiveZ", PositiveZ>>, <<"CubemapNegativeZ", NegativeZ>> >>

to_cubemap_face(cap) ==
    IF \E i \in DOMAIN CAPS_CUBEMAP_MAP : CAPS_CUBEMAP_MAP[i][1] = cap
    THEN Some(CAPS_CUBEMAP_MAP[CHOOSE i \in DOMAIN CAPS_CUBEMAP_MAP :
                                  CAPS_CUBEMAP_MAP[i][1] = cap][2])
    ELSE None

from_cubemap_face(face) ==
    CAPS_CUBEMAP_MAP[CHOOSE i \in DOMAIN CAPS_CUBEMAP_MAP : CAPS_CUBEMAP_MAP[i][2] = face][1]

cubemap_order(face) ==
    (CHOOSE i \in DOMAIN CAPS_CUBEMAP_MAP : CAPS_CUBEMAP_MAP[i][2] = face) - 1

\* BitFlags::from_bits: a bit that is no flag of the set fails the read
from_bits(bits, known) == IF bits \subseteq known THEN Ok(bits) ELSE Err("binrw")

\* DX10HeaderIntermediate.cube: a u32 in the file, read with
\* #[br(map = |b: u32| b == 0x4)] and written with
\* #[bw(map = |cube| if *cube { 0x4u32 } else { 0x0u32 })]
DX10CubeRead(b) == b = 4
DX10CubeWrite(cube) == IF cube THEN 4 ELSE 0

\* #[brw(little, magic = b"DDS ")], and the _size field: read as a temporary
\* and dropped, written as 124
DDS_MAGIC == "DDS "
DDS_SIZE == 124
Fields(raw) == [f \in DOMAIN raw \ {"magic", "size"} |-> raw[f]]

\* the magic is compared, the size is not
DDSHeaderMagic(raw) == raw.magic = DDS_MAGIC

\* reading the record: the magic, flags and caps through from_bits, the pixel
\* format through its own record, the DX10 record only after a DX10 pixel
\* format
DDSHeaderIntermediateRead(raw) ==
    IF \/ ~DDSHeaderMagic(raw)
       \/ from_bits(raw.flags, DDSFlags).tag = "Err"
       \/ from_bits(raw.caps1, Caps1).tag = "Err"
       \/ from_bits(raw.caps2, SeqRange(Caps2)).tag = "Err"
    THEN Err("binrw")
    ELSE LET pixel_format ==
                 PixelFormatFrom([raw.pixel_format EXCEPT
                                     !.flags = from_bits_truncate(raw.pixel_format.flags)])
         IN  Ok([Fields(raw) EXCEPT !.pixel_format = pixel_format,
                            !.dx10_header =
                                IF is_dx10(pixel_format) /\ raw.dx10_header # None
                                THEN Some([raw.dx10_header[1] EXCEPT
                                              !.cube = DX10CubeRead(@)])
                                ELSE None])

\* writing the record: every outcome
DDSHeaderIntermediateWrite(h) ==
    {IF r.tag = "Ok"
     THEN Ok([magic |-> DDS_MAGIC, size |-> DDS_SIZE] @@
             [h EXCEPT !.pixel_format = r.val,
                       !.dx10_header =
                           IF @ = None THEN None
                           ELSE Some([@[1] EXCEPT !.cube = DX10CubeWrite(@)])])
     ELSE r :
        r \in PixelFormatIntermediateFrom(h.pixel_format)}

NoPixelFormat == PixelFormatFourCC(NoFourCC)

Legacy(dims, mipcount, facelist, format) ==
    [variant |-> "Legacy", dimensions |-> dims, mips |-> mipcount, faces |-> facelist,
     format |-> format, layers |-> None, is_cubemap |-> FALSE,
     dxgi_format |-> "", alpha_mode |-> ""]
DX10(dims, mipcount, layercount, is_cubemap, dxgi_format, alpha_mode) ==
    [variant |-> "DX10", dimensions |-> dims, mips |-> mipcount, faces |-> None,
     format |-> NoPixelFormat, layers |-> layercount, is_cubemap |-> is_cubemap,
     dxgi_format |-> dxgi_format, alpha_mode |-> alpha_mode]

\* Dimensionality::as_dimensions: the axes the dimensionality names
as_dimensions(dimensionality, w, h, d) ==
    CASE dimensionality = "Texture1D" -> DimensionsTryFrom(<<w>>)
      [] dimensionality = "Texture2D" -> DimensionsTryFrom(<<w, h>>)
      [] OTHER -> DimensionsTryFrom(<<w, h, d>>)

\* From<Dimensions> for Dimensionality
DimensionalityFrom(d) ==
    CASE Len(d) = 1 -> "Texture1D"
      [] Len(d) = 2 -> "Texture2D"
      [] OTHER -> "Texture3D"

\* (every face, whatever bits are set)
Caps2Faces_all(caps2) == CubeFaceVariants

\* the faces of the caps2 bits, in the order of the bits
Caps2Faces(caps2) ==
    LET set == SelectSeq(Caps2, LAMBDA c : c \in caps2 /\ to_cubemap_face(c) # None)
    IN  [i \in DOMAIN set |-> to_cubemap_face(set[i])[1]]

\* variant of HeaderMips that goes by the MipmapCount flag alone
HeaderMips_flag_only(raw) ==
    IF "MipmapCount" \in raw.flags THEN Some(raw.mipmap_count) ELSE None

\* (flag set || mipmap_count > 1).then_some(mipmap_count)
HeaderMips(raw) ==
    IF "MipmapCount" \in raw.flags \/ raw.mipmap_count > 1
    THEN Some(raw.mipmap_count) ELSE None

\* TryFrom<DDSHeaderIntermediate> for DDSHeader
DDSHeaderTryFrom(raw) ==
    LET mipcount == HeaderMips(raw)
    IN  IF raw.dx10_header # None
        THEN LET dx10header == raw.dx10_header[1]
                 dims == as_dimensions(dx10header.dimensionality,
                                       raw.width, raw.height, raw.depth)
                 layercount == IF dx10header.array_size \in {0, 1} THEN None
                               ELSE Some(dx10header.array_size)
             IN  IF dims.tag = "Err" THEN dims
                 ELSE Ok(DX10(dims.val, mipcount, layercount, dx10header.cube,
                              dx10header.dxgi_format, dx10header.alpha_mode))
        ELSE LET dims == IF "Depth" \in raw.flags
                         THEN DimensionsTryFrom(<<raw.width, raw.height, raw.depth>>)
                         ELSE DimensionsTryFrom(<<raw.width, raw.height>>)
                 facelist == IF "Cubemap" \in raw.caps2 THEN Some(Caps2Faces(raw.caps2))
                             ELSE None
             IN  IF dims.tag = "Err" THEN dims
                 ELSE Ok(Legacy(dims.val, mipcount, facelist, raw.pixel_format))

\* dx10_header::try_into_format: no DXGI format has a translation
try_into_format(dxgi_format, alpha_mode) == Err("Format")

\* dx10_header::try_from_format: whether the format has a DXGI code is left
\* open; every outcome
try_from_format(format) == {Ok(<<"DXGI", "Unknown">>), Err("Format")}

DDSHeader_dimensions(h) == h.dimensions
DDSHeader_layers(h) == IF h.variant = "DX10" THEN h.layers ELSE None
DDSHeader_faces(h) ==
    IF h.variant = "Legacy" THEN h.faces
    ELSE IF h.is_cubemap THEN Some(CubeFaceVariants) ELSE None
DDSHeader_mips(h) == h.mips
DDSHeader_format(h) ==
    IF h.variant = "Legacy" THEN FormatTryFrom(h.format)
    ELSE try_into_format(h.dxgi_format, h.alpha_mode)

\* TryFrom<DDSHeader> for DDSHeaderIntermediate
\* (caps1 without the Complex bit of faces and layers)
ReencodedCaps1_mips_only(facelist, layerlist, miplist) ==
    {"Texture"} \cup (IF miplist # None THEN {"Complex", "Mipmap"} ELSE {})

\* caps1: Texture, Complex with faces, layers or mips, Mipmap with mips
ReencodedCaps1(facelist, layerlist, miplist) ==
    {"Texture"}
        \cup (IF facelist # None \/ layerlist # None \/ miplist # None
              THEN {"Complex"} ELSE {})
        \cup (IF miplist # None THEN {"Mipmap"} ELSE {})

\* (a size that is the linear size for every format)
ReencodedSize_always_linear(format, d) ==
    IF format.tag = "Err" THEN [flags |-> {}, size |-> 0]
    ELSE [flags |-> {"LinearSize"}, size |-> size_for(format.val, d)]

\* pitch_or_linear_size with its flag, by the result of header.format()
ReencodedSize(format, d) ==
    IF format.tag = "Err" THEN [flags |-> {}, size |-> 0]
    ELSE IF format.val.tag = "Uncompressed"
    THEN [flags |-> {"Pitch"}, size |-> format.val.pitch * width(d)]
    ELSE [flags |-> {"LinearSize"}, size |-> size_for(format.val, d)]

DDSHeaderIntermediateTryFrom(h) ==
    LET format == DDSHeader_format(h)
        facelist == IF h.variant = "Legacy" THEN h.faces
                    ELSE IF h.is_cubemap THEN Some(CubeFaceVariants) ELSE None
        sized == ReencodedSize(format, h.dimensions)
    IN  Ok([flags |-> {"Caps", "Width", "Height", "PixelFormat"} \cup sized.flags
                         \cup (IF h.mips # None THEN {"MipmapCount"} ELSE {}),
            height |-> height(h.dimensions),
            width |-> width(h.dimensions),
            pitch_or_linear_size |-> sized.size,
            depth |-> IF Len(h.dimensions) = 3 THEN h.dimensions[3] ELSE 0,
            mipmap_count |-> IF h.mips = None THEN 0 ELSE h.mips[1],
            pixel_format |-> IF h.variant = "Legacy" THEN h.format ELSE dx10,
            caps1 |-> ReencodedCaps1(facelist, h.layers, h.mips),
            caps2 |-> IF facelist = None THEN {}
                      ELSE {"Cubemap"} \cup {from_cubemap_face(f) : f \in SeqRange(facelist[1])},
            dx10_header |->
                IF h.variant = "Legacy" THEN None
                ELSE Some([dxgi_format |-> h.dxgi_format,
                           dimensionality |-> DimensionalityFrom(h.dimensions),
                           cube |-> h.is_cubemap,
                           array_size |-> IF h.layers = None THEN 1 ELSE h.layers[1],
                           alpha_mode |-> h.alpha_mode])])

(***************************************************************************)
(* SurfaceReader { format, reader } and the DDS driver (src/dds/mod.rs).   *)
(* A cursor is the position in the stream after the header and the reads   *)
(* done so far, each <<offset, length>>.                                   *)
(***************************************************************************)
SurfaceReader(format, stream) == [format |-> format, stream |-> stream]
Cursor(pos, reads) == [pos |-> pos, reads |-> reads]
StartCursor == Cursor(0, <<>>)

ReadOk(v, cur) == [tag |-> "Ok", err |-> "", val |-> v, cur |-> cur]
\* after a failure the position in the stream is not defined
ReadErr(e) == [tag |-> "Err", err |-> e, val |-> NoTexture, cur |-> StartCursor]

\* a result of a shape constructor, as the result of the read at cur
Built(res, cur) == IF res.tag = "Ok" THEN ReadOk(res.val, cur) ELSE ReadErr(res.err)

\* read_surface: size_for(dims) bytes, all of them or an IO error
read_surface(r, cur, d) ==
    LET n == size_for(r.format, d)
    IN  IF cur.pos + n > Len(r.stream) THEN ReadErr("IO")
        ELSE ReadOk(Surface(d, SubSeq(r.stream, cur.pos + 1, cur.pos + n)),
                    Cursor(cur.pos + n, Append(cur.reads, <<cur.pos, n>>)))

\* the surfaces of ds[1..k], one after the other
RECURSIVE ReadMipList(_, _, _, _)
ReadMipList(r, cur, ds, k) ==
    IF k = 0 THEN ReadOk(<<>>, cur)
    ELSE LET p == ReadMipList(r, cur, ds, k - 1)
         IN  IF p.tag = "Err" THEN p
             ELSE LET s == read_surface(r, p.cur, ds[k])
                  IN  IF s.tag = "Err" THEN s ELSE ReadOk(Append(p.val, s.val), s.cur)

\* read_mips(dims, mips, read_surface)
read_mips(r, cur, d, mipcount) ==
    IF mipcount = None THEN read_surface(r, cur, d)
    ELSE LET ds == Take(DimensionsMips(d), mipcount[1])
             p == ReadMipList(r, cur, ds, Len(ds))
         IN  IF p.tag = "Err" THEN p ELSE Built(try_from_mips(p.val), p.cur)

\* the mip chains of k faces, one after the other
RECURSIVE ReadFaceList(_, _, _, _, _)
ReadFaceList(r, cur, d, mipcount, k) ==
    IF k = 0 THEN ReadOk(<<>>, cur)
    ELSE LET p == ReadFaceList(r, cur, d, mipcount, k - 1)
         IN  IF p.tag = "Err" THEN p
             ELSE LET s == read_mips(r, p.cur, d, mipcount)
                  IN  IF s.tag = "Err" THEN s ELSE ReadOk(Append(p.val, s.val), s.cur)

\* read_faces(dims, faces, read_mips): every outcome
read_faces(r, cur, d, facelist, mipcount) ==
    IF facelist = None THEN {read_mips(r, cur, d, mipcount)}
    ELSE LET p == ReadFaceList(r, cur, d, mipcount, Len(facelist[1]))
         IN  IF p.tag = "Err" THEN {p}
             ELSE {Built(res, p.cur) : res \in try_from_faces(facelist[1], p.val)}

\* every outcome of reading k layers, one after the other
RECURSIVE ReadLayerList(_, _, _, _, _, _)
ReadLayerList(r, cur, d, facelist, mipcount, k) ==
    IF k = 0 THEN {ReadOk(<<>>, cur)}
    ELSE UNION {IF p.tag = "Err" THEN {p}
                ELSE {IF s.tag = "Err" THEN s ELSE ReadOk(Append(p.val, s.val), s.cur) :
                         s \in read_faces(r, p.cur, d, facelist, mipcount)} :
                   p \in ReadLayerList(r, cur, d, facelist, mipcount, k - 1)}

\* read_layers(dims, layers, read_faces): every outcome
read_layers(r, cur, d, layercount, facelist, mipcount) ==
    IF layercount = None THEN read_faces(r, cur, d, facelist, mipcount)
    ELSE {IF p.tag = "Err" THEN p ELSE Built(try_from_layers(p.val), p.cur) :
             p \in ReadLayerList(r, cur, d, facelist, mipcount, layercount[1])}

\* sorted_by_key: a stable sort of s by the key
SortedByKey(s, key(_)) ==
    LET rank(j) == Cardinality({k \in DOMAIN s :
                       key(s[k]) < key(s[j]) \/ (key(s[k]) = key(s[j]) /\ k < j)})
    IN  [i \in DOMAIN s |-> s[CHOOSE j \in DOMAIN s : rank(j) = i - 1]]

\* variant of read_surfaces that reads the faces in the reverse of their order
DDSHeader_read_surfaces_reversed(h, stream) ==
    LET format == DDSHeader_format(h)
        fs == DDSHeader_faces(h)
        facelist == IF fs = None THEN None
                    ELSE Some(SortedByKey(fs[1], LAMBDA f : 0 - cubemap_order(f)))
    IN  IF format.tag = "Err" THEN {ReadErr(format.err)}
        ELSE read_layers(SurfaceReader(format.val, stream), StartCursor,
                         DDSHeader_dimensions(h), DDSHeader_layers(h), facelist,
                         DDSHeader_mips(h))

\* DDSHeader::read_surfaces: every outcome
DDSHeader_read_surfaces(h, stream) ==
    LET format == DDSHeader_format(h)
        fs == DDSHeader_faces(h)
        facelist == IF fs = None THEN None ELSE Some(SortedByKey(fs[1], cubemap_order))
    IN  IF format.tag = "Err" THEN {ReadErr(format.err)}
        ELSE read_layers(SurfaceReader(format.val, stream), StartCursor,
                         DDSHeader_dimensions(h), DDSHeader_layers(h), facelist,
                         DDSHeader_mips(h))

Texture(format, surfaces) == [format |-> format, surfaces |-> surfaces]
NoDDSHeader == Legacy(<<>>, None, None, NoPixelFormat)
NoTextureRead == Texture(FormatBC("", FALSE), NoTexture)

\* ContainerHeader::read_texture: the header, its format, then the surfaces
read_texture(file) ==
    LET raw == DDSHeaderIntermediateRead(file.header)
        h == DDSHeaderTryFrom(raw.val)
        format == DDSHeader_format(h.val)
    IN  IF raw.tag = "Err" THEN {ReadErr(raw.err)}
        ELSE IF h.tag = "Err" THEN {ReadErr(h.err)}
        ELSE IF format.tag = "Err" THEN {ReadErr(format.err)}
        ELSE {IF s.tag = "Err" THEN s
              ELSE ReadOk([header |-> h.val, texture |-> Texture(format.val, s.val)], s.cur) :
                 s \in DDSHeader_read_surfaces(h.val, file.data)}

(***************************************************************************)
(* The iterators of TextureShape (src/shape.rs) and the writer.            *)
(***************************************************************************)
\* the sequences that take their i-th element from the set f[i]
SeqProduct(f) ==
    IF Len(f) = 0 THEN {<<>>}
    ELSE {s \in [DOMAIN f -> UNION {f[i] : i \in DOMAIN f}] : \A i \in DOMAIN f : s[i] \in f[i]}

\* .unwrap() of every item
Unwrapped(os) ==
    IF \A i \in DOMAIN os : os[i].tag = "Some" THEN Ok([i \in DOMAIN os |-> os[i].val])
    ELSE Panic("unwrap")

\* iter_layers, iter_faces and iter_mips: every sequence of items they can
\* yield, without the index of each item; a face is yielded with its key
iter_layers(t) ==
    IF layers(t) = None \/ layers(t) = Some(0) THEN {Ok(<<t>>)}
    ELSE {Unwrapped(os) : os \in SeqProduct([l \in 1..layers(t)[1] |-> get(t, Layer(l - 1))])}

iter_mips(t) ==
    IF mips(t) = None \/ mips(t) = Some(0) THEN {Ok(<<t>>)}
    ELSE {Unwrapped(os) : os \in SeqProduct([m \in 1..mips(t)[1] |-> get(t, Mip(m - 1))])}

iter_faces(t) ==
    IF faces(t) = None \/ faces(t) = Some(<<>>) THEN {Ok(<<[key |-> None, val |-> t]>>)}
    ELSE LET fs == faces(t)[1]
         IN  {IF r.tag = "Ok"
              THEN Ok([i \in DOMAIN fs |-> [key |-> Some(fs[i]), val |-> r.val[i]]])
              ELSE r :
                 r \in {Unwrapped(os) : os \in SeqProduct([i \in DOMAIN fs |-> get(t, Face(fs[i]))])}}

RECURSIVE Concat(_)
Concat(ss) == IF Len(ss) = 0 THEN <<>> ELSE Head(ss) \o Concat(Tail(ss))

\* the outcomes of writing one part after the other: the bytes of all, or the
\* first failure
WriteAll(parts) ==
    {IF \A i \in DOMAIN s : s[i].tag = "Ok" THEN Ok(Concat([i \in DOMAIN s |-> s[i].val]))
     ELSE s[CHOOSE i \in DOMAIN s : s[i].tag # "Ok" /\ \A j \in 1..(i - 1) : s[j].tag = "Ok"] :
        s \in SeqProduct(parts)}

\* (the mips written from the smallest to the largest)
WriteMips_reversed(face) ==
    {IF ms.tag # "Ok" THEN ms
     ELSE IF \E i \in DOMAIN ms.val : ms.val[i].kind # "Surface"
     THEN Panic("Innermost shape is not a surface")
     ELSE Ok(Concat([i \in DOMAIN ms.val |-> ms.val[Len(ms.val) + 1 - i].buf])) :
        ms \in iter_mips(face)}

\* for (_, mip) in face.iter_mips(): the buffer of each, which is a surface
WriteMips(face) ==
    {IF ms.tag # "Ok" THEN ms
     ELSE IF \E i \in DOMAIN ms.val : ms.val[i].kind # "Surface"
     THEN Panic("Innermost shape is not a surface")
     ELSE Ok(Concat([i \in DOMAIN ms.val |-> ms.val[i].buf])) :
        ms \in iter_mips(face)}

FaceKeyOrder(item) == IF item.key = None THEN 0 ELSE cubemap_order(item.key[1])

\* variant of WriteFaces that keeps the faces in the order iter_faces yields
WriteFaces_unsorted(layer) ==
    UNION {IF fs.tag # "Ok" THEN {fs}
           ELSE WriteAll([i \in DOMAIN fs.val |-> WriteMips(fs.val[i].val)]) :
              fs \in iter_faces(layer)}

\* for (_, face) in layer.iter_faces().sorted_by_key(cubemap_order)
WriteFaces(layer) ==
    UNION {IF fs.tag # "Ok" THEN {fs}
           ELSE LET sorted == SortedByKey(fs.val, FaceKeyOrder)
                IN  WriteAll([i \in DOMAIN sorted |-> WriteMips(sorted[i].val)]) :
              fs \in iter_faces(layer)}

\* DDSHeader::write_surfaces: every outcome, Ok(the bytes written) or a panic
DDSHeader_write_surfaces(surfaces) ==
    UNION {IF ls.tag # "Ok" THEN {ls}
           ELSE WriteAll([i \in DOMAIN ls.val |-> WriteFaces(ls.val[i])]) :
              ls \in iter_layers(surfaces)}

(***************************************************************************)
(* Building the header of a texture (src/dds/mod.rs).                      *)
(***************************************************************************)
PreferLegacy == "PreferLegacy"
ForceLegacy == "ForceLegacy"
ForceDX10 == "ForceDX10"
DDSHeaderMode == {PreferLegacy, ForceLegacy, ForceDX10}

for_texture_legacy(t) ==
    LET format == PixelFormatTryFrom(t.format)
    IN  IF layers(t.surfaces) # None THEN Err("Capability")
        ELSE IF format.tag = "Err" THEN format
        ELSE Ok(Legacy(dimensions(t.surfaces), mips(t.surfaces),
                       faces(t.surfaces), format.val))

\* variant of for_texture_dx10 that takes a cube map of any number of faces
for_texture_dx10_any_faces(t) ==
    {IF r.tag = "Err" THEN r
     ELSE Ok(DX10(dimensions(t.surfaces), mips(t.surfaces), layers(t.surfaces),
                  faces(t.surfaces) # None, r.val[1], r.val[2])) :
        r \in try_from_format(t.format)}

\* every outcome
for_texture_dx10(t) ==
    LET fs == faces(t.surfaces)
    IN  IF fs # None /\ Len(fs[1]) # 6 THEN {Err("Capability")}
        ELSE {IF r.tag = "Err" THEN r
              ELSE Ok(DX10(dimensions(t.surfaces), mips(t.surfaces),
                           layers(t.surfaces), fs # None, r.val[1], r.val[2])) :
                 r \in try_from_format(t.format)}

\* a call that has returned: the operation, its argument where it matters,
\* its result
Returned(op, arg, res) == [op |-> op, arg |-> arg, res |-> res]

\* variant of FromTextureArgsAttempts that goes on to DX10 after any failure
\* of the legacy attempt, whatever the mode
FromTextureArgsAttempts_always_retry(t, mode) ==
    LET legacy == for_texture_legacy(t)
        tried == <<Returned("for_texture_legacy", "", legacy)>>
    IN  IF mode # ForceDX10 /\ legacy.tag = "Ok" THEN {[calls |-> tried, res |-> legacy]}
        ELSE {[calls |-> (IF mode = ForceDX10 THEN <<>> ELSE tried)
                            \o <<Returned("for_texture_dx10", "", r)>>,
               res |-> r] : r \in for_texture_dx10(t)}

\* the body of from_texture_args: every outcome, with the attempts made
FromTextureArgsAttempts(t, mode) ==
    LET legacy == for_texture_legacy(t)
        tried == <<Returned("for_texture_legacy", "", legacy)>>
        retry(before) ==
            {[calls |-> Append(before, Returned("for_texture_dx10", "", r)), res |-> r] :
                r \in for_texture_dx10(t)}
    IN  IF mode # ForceDX10
        THEN IF legacy.tag = "Ok" THEN {[calls |-> tried, res |-> legacy]}
             ELSE IF mode = ForceLegacy THEN {[calls |-> tried, res |-> legacy]}
             ELSE IF legacy.err \in {"Capability", "Format"} THEN retry(tried)
             ELSE {[calls |-> tried, res |-> legacy]}
        ELSE retry(<<>>)

\* every outcome
from_texture_args(t, mode) == {a.res : a \in FromTextureArgsAttempts(t, mode)}

\* ContainerHeader::write_texture_args: the header of the texture, written,
\* then its surfaces; every outcome, Ok([header, data]) being the file written
write_texture_args(t, mode) ==
    UNION {IF h.tag # "Ok" THEN {h}
           ELSE UNION {IF raw.tag # "Ok" THEN {raw}
                       ELSE {IF data.tag # "Ok" THEN data
                             ELSE Ok([header |-> raw.val, data |-> data.val]) :
                                data \in DDSHeader_write_surfaces(t.surfaces)} :
                          raw \in DDSHeaderIntermediateWrite(
                                      DDSHeaderIntermediateTryFrom(h.val).val)} :
              h \in from_texture_args(t, mode)}

(***************************************************************************)
(* The pixel format round trip: a PixelFormat is written as its record and *)
(* read back.                                                              *)
(***************************************************************************)
RGBMasks == <<255, 65280, 16711680>>
AlphaMask == <<2130706432>>

\* 12 is no multiple of 8; eight times 2^29 does not fit a u32
BitCounts == {8 * p : p \in 0..MaxPitch} \cup {12, 536870912}
ColorFormats ==
    {ColorNone, L(RGBMasks[1]), YUV(RGBMasks[1], RGBMasks[2], RGBMasks[3])}
        \cup {RGB(RGBMasks[1], RGBMasks[2], RGBMasks[3], srgb) : srgb \in BOOLEAN}
AlphaFormats ==
    {Opaque, Custom(AlphaMask[1]), Straight(AlphaMask[1]), Premultiplied(AlphaMask[1])}
FourCCs == {"DXT1", "DXT3", "DXT5", "BC4U", "BC4S", "ATI2", "BC5U", "BC5S", "DX10", "XXXX"}
PixelFormats ==
    {PixelFormatFourCC(cc) : cc \in FourCCs}
        \cup {PixelFormatUncompressed(b, c, a) : b \in BitCounts, c \in ColorFormats,
                                                 a \in AlphaFormats}

NoRecord == PixelFormatIntermediate({}, NoFourCC, 0, <<0, 0, 0, 0>>)
NoFormat == FormatBC("none", FALSE)
PixelState(stage, value, record, format) ==
    [stage |-> stage, value |-> value, record |-> record, back |-> NoPixelFormat,
     format |-> format, translated |-> Err("none")]
NoPixel == PixelState("none", NoPixelFormat, NoRecord, NoFormat)

\* the records a file can hold: every combination of flags, a bit that is no
\* flag among them, with four distinct masks
GivenRecords ==
    {PixelFormatIntermediate(flags, cc, b, RGBMasks \o AlphaMask) :
        flags \in SUBSET (PixelFormatFlags \cup {"Unknown"}),
        cc \in {"DXT1", "XXXX"}, b \in {0, 12, 32}}

\* every Format: the block-compressed ones with either flag, the uncompressed
\* ones of every pitch
Formats ==
    {FormatBC(t, flag) : t \in {"BC1", "BC2", "BC3", "BC4", "BC5"}, flag \in BOOLEAN}
        \cup {FormatUncompressed(p, c, a) :
                 p \in (0..MaxPitch) \cup {536870912}, c \in ColorFormats, a \in AlphaFormats}

\* MipDimensionIterator { current }, with what it has yielded so far
MipDimensionIterator(current, yielded, done, runs) ==
    [current |-> current, yielded |-> yielded, done |-> done, runs |-> runs]
NoIter == MipDimensionIterator(None, <<>>, FALSE, <<>>)

NoFile == [header |-> <<>>, data |-> <<>>]
NoOutput == [mode |-> "", header |-> <<>>, data |-> <<>>]

\* the variables of the DDS reader and writer are not used by the shape calls
ShapeOnly ==
    /\ pixel = NoPixel
    /\ infile = NoFile
    /\ header = NoDDSHeader
    /\ texture = NoTextureRead
    /\ cursor = StartCursor
    /\ outfile = NoOutput
    /\ calls = <<>>
    /\ iter = NoIter
    /\ pc = "shape"

ddsvars == <<infile, header, texture, cursor, outfile, calls, pc>>

(***************************************************************************)
(* The state machine of the shape operations.  tex is the texture the      *)
(* caller holds (NoTexture before the first one); the children it hands to *)
(* a constructor are the texture itself, slices of it and fresh surfaces.  *)
(* last records the call that has just returned (its arguments and its    *)
(* result) until the caller goes on; it is Idle between calls.             *)
(***************************************************************************)
\* widths up to MaxDim, as flat <<w, 1>> and as the largest square
Dims == {<<w, 1>> : w \in 1..MaxDim} \cup {<<MaxDim, MaxDim>>}
Faces == {CubeFaceVariants[i] : i \in 1..NumFaces}
Indices == {Face(f) : f \in Faces} \cup {Mip(m) : m \in 0..MaxChildren}
              \cup {Layer(l) : l \in 0..MaxChildren}

RECURSIVE NodeCount(_)
RECURSIVE SumNodes(_, _)
SumNodes(c, n) == IF n = 0 THEN 0 ELSE NodeCount(c[n]) + SumNodes(c, n - 1)
NodeCount(t) == 1 + SumNodes(t.ch, Len(t.ch))

\* the textures a caller can hand to a constructor
Slices == IF tex = NoTexture THEN {}
          ELSE {r.val : r \in {o \in UNION {get(tex, ix) : ix \in Indices} : o.tag = "Some"}}
Candidates == (IF tex = NoTexture THEN {} ELSE {tex}) \cup Slices
                 \cup {Surface(d, <<>>) : d \in Dims}
\* (only lists whose result would fit the bound on the tree's size)
ChildLists == {cs \in SeqsUpTo(Candidates, MaxChildren) : 1 + SumNodes(cs, Len(cs)) <= MaxNodes}

Call(op, args, keys, index, res) ==
    [op |-> op, args |-> args, keys |-> keys, index |-> index, res |-> res]

\* a successful result becomes the caller's texture; a failure leaves it alone
Keep(res) ==
    IF res.tag \in {"Ok", "Some"}
    THEN NodeCount(res.val) <= MaxNodes /\ tex' = res.val
    ELSE UNCHANGED tex

Idle == Call("idle", <<>>, <<>>, NoIndex, NoneT)

Init ==
    /\ tex = NoTexture
    /\ last = Idle
    /\ ShapeOnly

FromSurface(d) ==
    /\ last = Idle
    /\ tex' = Surface(d, <<>>)
    /\ last' = Call("from_surface", <<>>, <<>>, NoIndex, Ok(Surface(d, <<>>)))

TryFromMips(cs) ==
    /\ last = Idle
    /\ last' = Call("try_from_mips", cs, <<>>, NoIndex, try_from_mips(cs))
    /\ Keep(last'.res)

TryFromFaces(ks, cs) ==
    /\ last = Idle
    /\ \E r \in try_from_faces(ks, cs) :
          /\ last' = Call("try_from_faces", cs, ks, NoIndex, r)
          /\ Keep(r)

TryFromLayers(cs) ==
    /\ last = Idle
    /\ last' = Call("try_from_layers", cs, <<>>, NoIndex, try_from_layers(cs))
    /\ Keep(last'.res)

Get(index) ==
    /\ last = Idle
    /\ tex # NoTexture
    /\ \E r \in get(tex, index) :
          /\ last' = Call("get", <<tex>>, <<>>, index, r)
          /\ Keep(r)

\* tex.iter_faces(), collected
IterFaces ==
    /\ last = Idle
    /\ tex # NoTexture
    /\ \E r \in iter_faces(tex) : last' = Call("iter_faces", <<tex>>, <<>>, NoIndex, r)
    /\ UNCHANGED tex

\* tex.faces()
FacesOf ==
    /\ last = Idle
    /\ tex # NoTexture
    /\ last' = Call("faces", <<tex>>, <<>>, NoIndex,
                    IF faces(tex) = None THEN NoneT ELSE SomeT(faces(tex)[1]))
    /\ UNCHANGED tex

\* the tree t with one byte in every surface, which names the surface's place:
\* its layer, face and mip level (0 where the tree has no such structure)
RECURSIVE Filled(_, _, _, _)
Filled(t, l, f, m) ==
    CASE t.kind = "Surface" -> Surface(t.dims, <<(<<l, f, m>>)>>)
      [] t.kind = "Array" -> Array([i \in DOMAIN t.ch |-> Filled(t.ch[i], i - 1, f, m)])
      [] t.kind = "CubeMap" ->
            CubeMap(t.keys, [i \in DOMAIN t.ch |-> Filled(t.ch[i], l, t.keys[i], m)])
      [] OTHER -> MipMap([i \in DOMAIN t.ch |-> Filled(t.ch[i], l, f, i - 1)])

\* DDSHeader::write_surfaces(writer, surfaces), the surfaces being tex with
\* bytes that name their place
WriteSurfaces ==
    /\ last = Idle
    /\ tex # NoTexture
    /\ LET surfaces == Filled(tex, 0, CubeFaceVariants[1], 0)
       IN  \E r \in DDSHeader_write_surfaces(surfaces) :
              last' = Call("write_surfaces", <<surfaces>>, <<>>, NoIndex, r)
    /\ UNCHANGED tex

\* the call has returned and the caller goes on
Return ==
    /\ last # Idle
    /\ last' = Idle
    /\ UNCHANGED tex

Next ==
    /\ UNCHANGED <<pixel, infile, header, texture, cursor, outfile, calls, iter, pc>>
    /\ \/ Return
       \/ /\ last = Idle
          /\ \/ \E d \in Dims : FromSurface(d)
             \/ \E cs \in ChildLists : TryFromMips(cs)
             \/ \E cs \in ChildLists, ks \in SeqsUpTo(Faces, MaxChildren) :
                   Len(ks) = Len(cs) /\ TryFromFaces(ks, cs)
             \/ \E cs \in ChildLists : TryFromLayers(cs)
             \/ \E index \in Indices : Get(index)
             \/ IterFaces
             \/ FacesOf
             \/ WriteSurfaces

Spec == Init /\ [][Next]_vars

(***************************************************************************)
(* Properties of the shape operations.                                     *)
(***************************************************************************)
IsTryFromMips == last.op = "try_from_mips"
IsTryFromFaces == last.op = "try_from_faces"
IsGet == last.op = "get"

DimsOf(cs) == [i \in DOMAIN cs |-> dimensions(cs[i])]
Halve(d) == [i \in DOMAIN d |-> IF d[i] \div 2 >= 1 THEN d[i] \div 2 ELSE 1]

\* the dimensions ds[1..n] start at ds[1] and each next one is the previous halved
IsHalvingChain(ds) == \A i \in 1..(Len(ds) - 1) : ds[i + 1] = Halve(ds[i])
\* ... and no element after the all-ones one: a (proper or full) prefix of the chain
IsChainPrefix(ds) ==
    /\ IsHalvingChain(ds)
    /\ \A i \in 1..(Len(ds) - 1) : \E a \in DOMAIN ds[i] : ds[i][a] > 1
\* ... and it runs down to the all-ones element: the complete chain
IsFullChain(ds) ==
    /\ IsChainPrefix(ds)
    /\ \A a \in DOMAIN ds[Len(ds)] : ds[Len(ds)][a] = 1

SameLayers(cs) == \A i, j \in DOMAIN cs : layers(cs[i]) = layers(cs[j])
SameFaces(cs) == \A i, j \in DOMAIN cs : faces(cs[i]) = faces(cs[j])
SameMips(cs) == \A i, j \in DOMAIN cs : mips(cs[i]) = mips(cs[j])
SameDims(cs) == \A i, j \in DOMAIN cs : dimensions(cs[i]) = dimensions(cs[j])
AnyMips(cs) == \E i \in DOMAIN cs : mips(cs[i]) # None
AnyFaces(cs) == \E i \in DOMAIN cs : faces(cs[i]) # None

\* C1 (as claimed): try_from_mips accepts every prefix of the mip chain: n
\* un-mipmapped, uniform children whose dimensions are the first n elements
\* of the chain of the first child give Ok(MipMap), and InvalidMipChain is
\* returned only when the dimensions are not such a prefix.
C1_PrefixAccepted ==
    (IsTryFromMips /\ Len(last.args) > 0) =>
        /\ (/\ IsChainPrefix(DimsOf(last.args))
            /\ SameLayers(last.args) /\ SameFaces(last.args) /\ ~AnyMips(last.args))
              => last.res = Ok(MipMap(last.args))
        /\ last.res = Err("InvalidMipChain") => ~IsChainPrefix(DimsOf(last.args))

RECURSIVE HasKind(_, _)
HasKind(t, k) == t.kind = k \/ \E i \in DOMAIN t.ch : HasKind(t.ch[i], k)

RECURSIVE NoSameKindNesting(_)
NoSameKindNesting(t) ==
    \A i \in DOMAIN t.ch : ~HasKind(t.ch[i], t.kind) /\ NoSameKindNesting(t.ch[i])

RECURSIVE NoEmptyNode(_)
NoEmptyNode(t) ==
    /\ t.kind # "Surface" => Len(t.ch) > 0
    /\ \A i \in DOMAIN t.ch : NoEmptyNode(t.ch[i])

\* C2: a tree built by the constructors and get never holds a node of a kind
\* inside a node of the same kind (Array in Array, CubeMap in CubeMap, MipMap
\* in MipMap), holds at least one Surface and no empty CubeMap.
C2_NoSameKindNesting ==
    tex # NoTexture =>
        /\ NoSameKindNesting(tex)
        /\ HasKind(tex, "Surface")
        /\ NoEmptyNode(tex)
        /\ ~HasKind(tex, "None")

\* a cube map rebuilt by a slice, holding arrays: two kinds nested, built by
\* the constructors and then by get
C2_Witness ==
    /\ IsGet /\ last.res.tag = "Some" /\ tex = last.res.val
    /\ tex.kind = "CubeMap" /\ tex.ch[1].kind = "Array"
    /\ last.args[1].ch[1].kind = "MipMap"

\* the <<mip index, dimensions>> of every surface of t; m is the index of the
\* mip level the walk is in (0 outside any mipmap)
RECURSIVE MipDims(_, _)
MipDims(t, m) ==
    IF t.kind = "Surface" THEN {<<m, t.dims>>}
    ELSE UNION {MipDims(t.ch[i], IF t.kind = "MipMap" THEN i - 1 ELSE m) : i \in DOMAIN t.ch}

\* C3: in every reachable tree the surfaces of one mip index have the same
\* dimensions, and those of index i+1 the dimensions of index i halved per
\* axis (floor, at least 1), whatever the nesting order.
C3_MipDimensions ==
    tex # NoTexture =>
        \A p, q \in MipDims(tex, 0) :
            /\ p[1] = q[1] => p[2] = q[2]
            /\ q[1] = p[1] + 1 => q[2] = Halve(p[2])

\* a mipmap of two levels whose second level has two surfaces
C3_Witness ==
    /\ tex.kind = "MipMap" /\ Len(tex.ch) = 2
    /\ tex.ch[2].kind \in {"Array", "CubeMap"} /\ Len(tex.ch[2].ch) = 2
    /\ \E a \in 1..2 : dimensions(tex)[a] > 1

\* C4 (as claimed): try_from_mips fails with Nested("mipmap") whenever a
\* child already has a mipmap, whatever the children's dimensions.
C4_NestedWhateverDims ==
    (IsTryFromMips /\ AnyMips(last.args)) => last.res = Err("Nested(mipmap)")

\* C4 (amended): try_from_mips never succeeds when a child already has a
\* mipmap; the error is Nested("mipmap") exactly when the children's
\* dimensions are the complete mip chain of the first child and their layers
\* and faces agree, and InvalidMipChain or NonUniform otherwise.
C4_NestedAfterChain ==
    (IsTryFromMips /\ AnyMips(last.args)) =>
        /\ last.res.tag = "Err"
        /\ last.res.err \in {"Nested(mipmap)", "InvalidMipChain",
                             "NonUniform(layers)", "NonUniform(faces)"}
        /\ last.res.err = "Nested(mipmap)" <=>
              (/\ IsFullChain(DimsOf(last.args))
               /\ SameLayers(last.args) /\ SameFaces(last.args))
        /\ last.res.err = "InvalidMipChain" <=> ~IsFullChain(DimsOf(last.args))

C4_Witness ==
    /\ IsTryFromMips /\ AnyMips(last.args)
    /\ last.res = Err("Nested(mipmap)")

HasRepeat(ks) == Cardinality(SeqRange(ks)) < Len(ks)

\* C5: try_from_faces returns Empty("cube") for no faces, DuplicateFaces for
\* a repeated key, NonUniform(_) when the children disagree on dimensions,
\* mips or layers, Nested("cube") when a child already has a cubemap, and in
\* every other case a CubeMap whose keys are exactly the provided faces, each
\* with the child provided for it.
C5_TryFromFaces ==
    IsTryFromFaces =>
        LET ks == last.keys
            cs == last.args
            r  == last.res
            uniform == SameDims(cs) /\ SameMips(cs) /\ SameLayers(cs)
        IN  /\ r = Err("Empty(cube)") <=> Len(ks) = 0
            /\ r = Err("DuplicateFaces") <=> HasRepeat(ks)
            /\ r = Err("NonUniform(dimensions)") => ~SameDims(cs)
            /\ r = Err("NonUniform(mips)") => ~SameMips(cs)
            /\ r = Err("NonUniform(layers)") => ~SameLayers(cs)
            /\ r = Err("Nested(cube)") => AnyFaces(cs)
            /\ (~HasRepeat(ks) /\ ~uniform) =>
                  r.err \in {"NonUniform(dimensions)", "NonUniform(mips)", "NonUniform(layers)"}
            /\ (~HasRepeat(ks) /\ uniform /\ AnyFaces(cs)) => r = Err("Nested(cube)")
            /\ r.tag = "Ok" <=> (Len(ks) > 0 /\ ~HasRepeat(ks) /\ uniform /\ ~AnyFaces(cs))
            /\ r.tag \in {"Ok", "Err"}
            /\ r.tag = "Ok" =>
                  /\ r.val.kind = "CubeMap"
                  /\ Len(r.val.keys) = Len(ks)
                  /\ SeqRange(r.val.keys) = SeqRange(ks)
                  /\ \A i \in DOMAIN ks : r.val.ch[KeyPos(r.val, ks[i])] = cs[i]

\* a cube map of two faces was built from two mipmapped children
C5_Witness ==
    /\ IsTryFromFaces /\ last.res.tag = "Ok"
    /\ Len(last.keys) = 2 /\ mips(last.args[1]) # None

\* the tree with every cube map's children put in the order of their keys
RECURSIVE Canon(_)
Canon(t) ==
    LET n == Len(t.ch)
        \* the position in t of the child that comes i-th by key
        ord == [i \in 1..n |->
                  CHOOSE j \in 1..n : Cardinality({k \in 1..n : t.keys[k] < t.keys[j]}) = i - 1]
    IN  IF t.kind = "CubeMap"
        THEN CubeMap([i \in 1..n |-> t.keys[ord[i]]], [i \in 1..n |-> Canon(t.ch[ord[i]])])
        ELSE [t EXCEPT !.ch = [i \in 1..n |-> Canon(t.ch[i])]]

IndexKind(index) ==
    CASE index.kind = "Face" -> "CubeMap"
      [] index.kind = "Mip" -> "MipMap"
      [] index.kind = "Layer" -> "Array"

\* the slicing rule: NoTexture stands for None
RECURSIVE Slice(_, _)
Slice(t, index) ==
    IF t.kind = "Surface" THEN NoTexture
    ELSE IF t.kind = IndexKind(index)
    THEN IF t.kind = "CubeMap"
         THEN (IF index.i \in SeqRange(t.keys) THEN t.ch[KeyPos(t, index.i)] ELSE NoTexture)
         ELSE (IF index.i < Len(t.ch) THEN t.ch[index.i + 1] ELSE NoTexture)
    ELSE LET rs == [j \in DOMAIN t.ch |-> Slice(t.ch[j], index)]
         IN  IF \E j \in DOMAIN rs : rs[j] = NoTexture THEN NoTexture
             ELSE [t EXCEPT !.ch = rs]

\* C6: get(index) is None on a Surface; on a node of the index's kind it is
\* the selected child itself (None when out of range or the face is absent);
\* on a node of another kind it is a node of that kind built from get(index)
\* of every child, and None if a child gives None.
C6_Get ==
    IsGet =>
        /\ last.res.tag \in {"Some", "None"}
        /\ last.res.tag = "None" <=> Slice(last.args[1], last.index) = NoTexture
        /\ Canon(last.res.val) = Canon(Slice(last.args[1], last.index))

\* a mip level was sliced out of an array of mipmaps
C6_Witness ==
    /\ IsGet /\ last.res.tag = "Some"
    /\ last.args[1].kind = "Array" /\ last.index.kind = "Mip"
    /\ last.res.val.kind = "Array" /\ Len(last.res.val.ch) = 2

\* the set of faces of a texture, None without a cube map
FaceSet(t) ==
    IF faces(t) = None THEN None
    ELSE Some({faces(t)[1][i] : i \in DOMAIN faces(t)[1]})

\* C27 (as claimed): try_from_layers and try_from_mips never report
\* NonUniform("faces") for children that have the same set of faces, whatever
\* order faces() enumerates them in.
C27_FaceSetsCompared ==
    (/\ last.op \in {"try_from_layers", "try_from_mips"}
     /\ \A i, j \in DOMAIN last.args : FaceSet(last.args[i]) = FaceSet(last.args[j]))
        => last.res.err # "NonUniform(faces)"

\* the bytes of the surfaces of a tree, whatever its nesting
RECURSIVE Bytes(_)
Bytes(t) ==
    IF t.kind = "Surface" THEN {t.buf[i] : i \in DOMAIN t.buf}
    ELSE UNION {Bytes(t.ch[i]) : i \in DOMAIN t.ch}

RECURSIVE SurfacesIn(_)
RECURSIVE SumSurfaces(_, _)
SumSurfaces(c, n) == IF n = 0 THEN 0 ELSE SurfacesIn(c[n]) + SumSurfaces(c, n - 1)
SurfacesIn(t) == IF t.kind = "Surface" THEN 1 ELSE SumSurfaces(t.ch, Len(t.ch))

\* a byte comes before another: by layer, then by the face's place in the
\* canonical order, then by mip level
Before(a, b) ==
    \/ a[1] < b[1]
    \/ a[1] = b[1] /\ cubemap_order(a[2]) < cubemap_order(b[2])
    \/ a[1] = b[1] /\ a[2] = b[2] /\ a[3] < b[3]

\* the bytes of a set, each once, in that order
LayerMajor(bytes) ==
    [i \in 1..Cardinality(bytes) |->
        CHOOSE a \in bytes : Cardinality({b \in bytes : Before(b, a)}) = i - 1]

IsWritten == last.op = "write_surfaces"

\* C29: write_surfaces emits the same bytes for every valid tree that holds
\* the same surfaces, whatever the nesting order of its Array, CubeMap and
\* MipMap nodes: every surface exactly once, layer by layer, the faces of a
\* layer in the canonical order, the mips of a face from the largest to the
\* smallest.
C29_WriteOrder ==
    IsWritten =>
        /\ Cardinality(Bytes(last.args[1])) = SurfacesIn(last.args[1])
        /\ last.res = Ok(LayerMajor(Bytes(last.args[1])))

\* a mipmap of two cube maps of two faces, the second face enumerated first,
\* was written: four surfaces, the faces outermost
C29_Witness ==
    /\ IsWritten
    /\ last.args[1].kind = "MipMap" /\ Len(last.args[1].ch) = 2
    /\ last.args[1].ch[1].kind = "CubeMap"
    /\ last.args[1].ch[1].keys = <<CubeFaceVariants[2], CubeFaceVariants[1]>>
    /\ last.res.tag = "Ok" /\ Len(last.res.val) = 4
    /\ last.res.val[2] = <<0, CubeFaceVariants[1], 1>>

\* C30 (as claimed): a slice removes exactly the sliced kind.  When get(index)
\* on a valid tree t is Some(r), the accessor of the sliced kind is None on r,
\* the other two accessors give on r what they give on t, and the dimensions
\* of r are those of t for a layer or a face and the i-th of t's mip chain
\* for Mip(i).
C30_SliceFrame ==
    (IsGet /\ last.res.tag = "Some") =>
        LET t == last.args[1]
            r == last.res.val
            kind == last.index.kind
        IN  /\ kind = "Layer" => layers(r) = None /\ faces(r) = faces(t) /\ mips(r) = mips(t)
            /\ kind = "Face" => faces(r) = None /\ layers(r) = layers(t) /\ mips(r) = mips(t)
            /\ kind = "Mip" => mips(r) = None /\ layers(r) = layers(t) /\ faces(r) = faces(t)
            /\ dimensions(r) = IF kind = "Mip"
                               THEN DimensionsMips(dimensions(t))[last.index.i + 1]
                               ELSE dimensions(t)

InitPF ==
    /\ tex = NoTexture
    /\ last = Idle
    /\ pixel \in {PixelState("value", v, NoRecord, NoFormat) : v \in PixelFormats}
                 \cup {PixelState("record", NoPixelFormat, r, NoFormat) : r \in GivenRecords}
                 \cup {PixelState("format", NoPixelFormat, NoRecord, f) : f \in Formats}
    /\ infile = NoFile
    /\ header = NoDDSHeader
    /\ texture = NoTextureRead
    /\ cursor = StartCursor
    /\ outfile = NoOutput
    /\ calls = <<>>
    /\ iter = NoIter
    /\ pc = "pixel"

\* BinWrite of a PixelFormat: its record
Encode ==
    /\ pixel.stage = "value"
    /\ \E r \in PixelFormatIntermediateFrom(pixel.value) :
          pixel' = IF r.tag = "Ok" THEN [pixel EXCEPT !.stage = "encoded", !.record = r.val]
                   ELSE [pixel EXCEPT !.stage = "panicked"]
    /\ UNCHANGED <<tex, last, iter>>
    /\ UNCHANGED ddsvars

\* BinRead of a PixelFormat: the record, its flags truncated, converted
Decode ==
    /\ pixel.stage \in {"encoded", "record"}
    /\ pixel' = [pixel EXCEPT
                    !.stage = IF pixel.stage = "encoded" THEN "decoded" ELSE "read",
                    !.back = PixelFormatFrom([pixel.record EXCEPT
                                 !.flags = from_bits_truncate(pixel.record.flags)])]
    /\ UNCHANGED <<tex, last, iter>>
    /\ UNCHANGED ddsvars

\* PixelFormat::try_from(format)
ToPixelFormat ==
    /\ pixel.stage = "format"
    /\ \E r \in PixelFormatTryFromOutcomes(pixel.format) :
          pixel' = CASE r.tag = "Ok" -> [pixel EXCEPT !.stage = "pixel_of_format",
                                                       !.back = r.val]
                     [] r.tag = "Err" -> [pixel EXCEPT !.stage = "format_refused"]
                     [] OTHER -> [pixel EXCEPT !.stage = "format_panicked"]
    /\ UNCHANGED <<tex, last, iter>>
    /\ UNCHANGED ddsvars

\* Format::try_from(pixel format), of a given pixel format or of the one a
\* format was translated to
ToFormat ==
    /\ pixel.stage \in {"value", "pixel_of_format"}
    /\ pixel' = IF pixel.stage = "value"
                THEN [pixel EXCEPT !.stage = "format_of_value",
                                   !.translated = FormatTryFrom(pixel.value)]
                ELSE [pixel EXCEPT !.stage = "format_again",
                                   !.translated = FormatTryFrom(pixel.back)]
    /\ UNCHANGED <<tex, last, iter>>
    /\ UNCHANGED ddsvars

NextPF == Encode \/ Decode \/ ToPixelFormat \/ ToFormat

SpecPF == InitPF /\ [][NextPF]_vars

\* C7 (as claimed): writing a PixelFormat as its record and reading it back
\* gives the same PixelFormat, for every FourCC and every Uncompressed value
\* (every bit_count, srgb true or false, every alpha format).
C7_PixelFormatRoundTrip ==
    pixel.stage = "decoded" => pixel.back = pixel.value

\* the first of RGB, YUV and Luminance that is set in the flags
FirstColorFlag(flags) ==
    CASE "RGB" \in flags -> "RGB"
      [] "YUV" \in flags -> "YUV"
      [] "Luminance" \in flags -> "L"
      [] OTHER -> "None"

IsRecordRead == pixel.stage = "read"

\* C25: a record with the FourCC flag decodes to FourCC(four_cc), whatever its
\* other flags and masks; any other record decodes to Uncompressed with the
\* bit_count copied, the color format of the first set flag of RGB, YUV and
\* Luminance (None without one) over mask slots 0..2, and the alpha format
\* Custom of mask slot 3 if Alpha or AlphaPixels is set, Opaque otherwise.
C25_RecordDecoded ==
    IsRecordRead =>
        LET r == pixel.record
            m == r.bitmasks
            b == pixel.back
            color == FirstColorFlag(r.flags)
        IN  IF "FourCC" \in r.flags
            THEN b.tag = "FourCC" /\ b.four_cc = r.four_cc
            ELSE /\ b.tag = "Uncompressed"
                 /\ b.bit_count = r.bit_count
                 /\ b.color_format.kind = color
                 /\ color = "RGB" => b.color_format.masks = <<m[1], m[2], m[3]>>
                 /\ color = "YUV" => b.color_format.masks = <<m[1], m[2], m[3]>>
                 /\ color = "L" => b.color_format.masks[1] = m[1]
                 /\ b.alpha_format =
                        IF r.flags \cap {"Alpha", "AlphaPixels"} # {}
                        THEN Custom(m[4]) ELSE Opaque

\* a record with the RGB, YUV and Alpha flags was decoded to an RGB format
\* with a custom alpha mask
C25_Witness ==
    /\ IsRecordRead
    /\ {"RGB", "YUV", "Alpha"} \subseteq pixel.record.flags
    /\ "FourCC" \notin pixel.record.flags
    /\ pixel.back.color_format.kind = "RGB"
    /\ pixel.back.alpha_format = Custom(AlphaMask[1])
    /\ pixel.back.bit_count = 32

\* the Format of each FourCC tag that has one
FourCCFormats ==
    [cc \in {"DXT1", "DXT3", "DXT5", "BC4U", "BC4S", "ATI2", "BC5U", "BC5S"} |->
        CASE cc = "DXT1" -> FormatBC("BC1", FALSE)
          [] cc = "DXT3" -> FormatBC("BC2", FALSE)
          [] cc = "DXT5" -> FormatBC("BC3", FALSE)
          [] cc = "BC4U" -> FormatBC("BC4", FALSE)
          [] cc = "BC4S" -> FormatBC("BC4", TRUE)
          [] cc = "BC5S" -> FormatBC("BC5", TRUE)
          [] OTHER -> FormatBC("BC5", FALSE)]

\* the formats the round trip is claimed for: the uncompressed ones and the
\* block-compressed ones without srgb
RoundTripFormats ==
    {f \in Formats : f.tag \in {"BC1", "BC2", "BC3"} => ~f.flag}

\* a pixel format is translated as the table says
FormatOfValue ==
    pixel.stage = "format_of_value" =>
        LET pf == pixel.value
        IN  pixel.translated =
                IF pf.tag = "FourCC"
                THEN IF pf.four_cc \in DOMAIN FourCCFormats
                     THEN Ok(FourCCFormats[pf.four_cc]) ELSE Err("Format")
                ELSE IF pf.bit_count % 8 = 0
                     THEN Ok(FormatUncompressed(pf.bit_count \div 8, pf.color_format,
                                                pf.alpha_format))
                     ELSE Err("Format")

\* a format comes back from its pixel format
FormatRoundTrip ==
    pixel.format \in RoundTripFormats =>
        /\ pixel.stage \notin {"format_refused", "format_panicked"}
        /\ pixel.stage = "format_again" => pixel.translated = Ok(pixel.format)

\* C26 (as claimed): the FourCC tags DXT1, DXT3, DXT5, BC4U, BC4S, ATI2/BC5U
\* and BC5S translate to BC1, BC2, BC3 without srgb, BC4 unsigned and signed,
\* BC5 unsigned and signed; DX10 and every other tag give a Format error; an
\* Uncompressed pixel format gives the pitch bit_count / 8, a Format error iff
\* bit_count is no multiple of 8.  And Format -> PixelFormat -> Format returns
\* the original for every Uncompressed format and every block-compressed one
\* with srgb false.
C26_FormatTranslation == FormatOfValue /\ FormatRoundTrip

(***************************************************************************)
(* DDS files: the header records and the streams the reader is given.      *)
(***************************************************************************)
RequiredFlags == {"Caps", "Height", "Width", "PixelFormat"}
\* the optional flags of a header with its pitch_or_linear_size
RawSizes ==
    {<<{}, 0>>, <<{"Pitch"}, 8>>, <<{"LinearSize"}, 8>>, <<{"LinearSize"}, 0>>}
RawFlagSets ==
    {RequiredFlags \cup s : s \in SUBSET {"MipmapCount", "Depth"}}

RawDXT1 == PixelFormatIntermediate({"FourCC"}, "DXT1", 0, <<0, 0, 0, 0>>)
RawATI2 == PixelFormatIntermediate({"FourCC"}, "ATI2", 0, <<0, 0, 0, 0>>)
RawDX10 == PixelFormatIntermediate({"FourCC"}, "DX10", 0, <<0, 0, 0, 0>>)
RawRGB == PixelFormatIntermediate({"RGB"}, NoFourCC, 24, RGBMasks \o <<0>>)
RawLA == PixelFormatIntermediate({"Luminance", "AlphaPixels"}, NoFourCC, 16,
                                 <<RGBMasks[1], 0, 0, RGBMasks[2]>>)
RawOdd == PixelFormatIntermediate({"RGB"}, NoFourCC, 12, RGBMasks \o <<0>>)

\* the record as it is in the file, cube being the u32 of the misc flags:
\* 0x4 is the cube map's bit; 0x1 and 0x8 are other bits
DX10Header(dimensionality, cube, array_size) ==
    [dxgi_format |-> "BC1UNorm", dimensionality |-> dimensionality, cube |-> cube,
     array_size |-> array_size, alpha_mode |-> "Unknown"]
MiscFlagValues == {0, 1, 4, 5, 12}
DX10Headers ==
    {DX10Header("Texture2D", cube, n) : cube \in MiscFlagValues, n \in 0..MaxLayers}
        \cup {DX10Header("Texture1D", 0, 1), DX10Header("Texture3D", 0, 1)}

\* a pixel format record and the DX10 record that follows it
LegacyFormats == {<<p, None>> : p \in {RawDXT1, RawATI2, RawRGB, RawLA, RawOdd}}
DX10Formats == {<<RawDX10, Some(x)>> : x \in DX10Headers}

FaceCaps == {from_cubemap_face(f) : f \in Faces}
RawCaps2 ==
    {{}, {"Volume"}, {CAPS_CUBEMAP_MAP[1][1]}}
        \cup {{"Cubemap"} \cup fs : fs \in SUBSET FaceCaps}
RawCaps1 == {{"Texture"}, {"Texture", "Complex", "Mipmap"}}

RawHeader(flags, w, h, pitch, d, m, fmt, caps1, caps2) ==
    [magic |-> DDS_MAGIC, size |-> DDS_SIZE,
     flags |-> flags, height |-> h, width |-> w, pitch_or_linear_size |-> pitch,
     depth |-> d, mipmap_count |-> m, pixel_format |-> fmt[1], caps1 |-> caps1,
     caps2 |-> caps2, dx10_header |-> fmt[2]]

\* headers of a 1x1 DXT1 texture with one thing wrong: the magic, the size,
\* or a bit that is no flag in flags, caps1 or caps2
MalformedHeaders ==
    LET good == RawHeader(RequiredFlags, 1, 1, 0, 0, 0, <<RawDXT1, None>>, {"Texture"}, {})
    IN  {[good EXCEPT !.magic = "DDS!"], [good EXCEPT !.size = DDS_SIZE - 1],
         [good EXCEPT !.flags = @ \cup {"Unknown"}],
         [good EXCEPT !.caps1 = @ \cup {"Unknown"}],
         [good EXCEPT !.caps2 = @ \cup {"Unknown"}]}

\* the file is a header of the header round trip, with the data, or one of
\* the malformed headers
GivenRawHeader(data) ==
    \/ \E flags \in RawFlagSets, size \in RawSizes, w \in 0..MaxWidth, h \in 1..MaxHeight,
          d \in 0..MaxDepth, m \in 0..MaxMipCount, fmt \in LegacyFormats,
          caps1 \in RawCaps1, caps2 \in RawCaps2 :
          infile = [header |-> RawHeader(flags \cup size[1], w, h, size[2], d, m, fmt,
                                         caps1, caps2),
                    data |-> data]
    \/ \E flags \in RawFlagSets, w \in 0..MaxWidth, h \in 1..MaxHeight,
          d \in 0..MaxDepth, m \in 0..MaxMipCount, fmt \in DX10Formats :
          infile = [header |-> RawHeader(flags, w, h, 0, d, m, fmt, {"Texture"}, {}),
                    data |-> data]
    \/ \E bad \in MalformedHeaders : infile = [header |-> bad, data |-> data]

\* the file is a header of the texture round trip, with the data: the reader
\* looks at neither the pitch, nor caps1, nor the Pitch and LinearSize flags
GivenReaderHeader(data) ==
    \/ \E flags \in RawFlagSets, w \in 0..MaxWidth, h \in 1..MaxHeight,
          d \in 0..MaxDepth, m \in 0..MaxMipCount, fmt \in LegacyFormats,
          caps2 \in RawCaps2 :
          infile = [header |-> RawHeader(flags, w, h, 0, d, m, fmt, {"Texture"}, caps2),
                    data |-> data]
    \/ \E flags \in RawFlagSets, w \in 0..MaxWidth, h \in 1..MaxHeight,
          d \in 0..MaxDepth, m \in 0..MaxMipCount, fmt \in DX10Formats :
          infile = [header |-> RawHeader(flags, w, h, 0, d, m, fmt, {"Texture"}, {}),
                    data |-> data]
    \/ \E bad \in MalformedHeaders : infile = [header |-> bad, data |-> data]

\* a stream of n bytes, each telling its place
Stream(n) == [i \in 1..n |-> i % 256]
StreamLens == {(MaxStream \div 15) * k : k \in {0, 1, 3, 15}}

(***************************************************************************)
(* The header round trip: DDSHeader::read, then DDSHeader::write.          *)
(***************************************************************************)
InitHdr ==
    /\ tex = NoTexture
    /\ last = Idle
    /\ pixel = NoPixel
    /\ GivenRawHeader(<<>>)
    /\ header = NoDDSHeader
    /\ texture = NoTextureRead
    /\ cursor = StartCursor
    /\ outfile = NoOutput
    /\ calls = <<>>
    /\ iter = NoIter
    /\ pc = "start"

\* BinRead of a DDSHeader: the record, converted
ReadHeader ==
    /\ pc = "start"
    /\ LET raw == DDSHeaderIntermediateRead(infile.header)
           h == DDSHeaderTryFrom(raw.val)
       IN  IF raw.tag = "Ok" /\ h.tag = "Ok"
           THEN header' = h.val /\ pc' = "header"
           ELSE header' = header /\ pc' = "read_failed"
    /\ UNCHANGED <<tex, last, pixel, infile, texture, cursor, outfile, calls, iter>>

\* BinWrite of the DDSHeader: converted, the record
WriteHeader ==
    /\ pc = "header"
    /\ LET h == DDSHeaderIntermediateTryFrom(header)
       IN  \E raw \in DDSHeaderIntermediateWrite(h.val) :
              IF raw.tag = "Ok"
              THEN /\ outfile' = [mode |-> "", header |-> raw.val, data |-> <<>>]
                   /\ pc' = "rewritten"
              ELSE outfile' = outfile /\ pc' = "write_failed"
    /\ UNCHANGED <<tex, last, pixel, infile, header, texture, cursor, calls, iter>>

\* DDSHeaderIntermediate::try_from(header), then DDSHeader::try_from of the
\* record
Renormalize ==
    /\ pc = "header"
    /\ LET raw == DDSHeaderIntermediateTryFrom(header)
       IN  last' = Call("renormalize", <<header>>, <<>>, NoIndex,
                        IF raw.tag = "Ok" THEN DDSHeaderTryFrom(raw.val) ELSE raw)
    /\ pc' = "renormalized"
    /\ UNCHANGED <<tex, pixel, infile, header, texture, cursor, outfile, calls, iter>>

NextHdr == ReadHeader \/ WriteHeader \/ Renormalize

SpecHdr == InitHdr /\ [][NextHdr]_vars

HeaderFields ==
    {"flags", "height", "width", "pitch_or_linear_size", "depth", "mipmap_count",
     "pixel_format", "caps1", "caps2"}

\* C8 (as claimed): a legacy header that is read and written back has the
\* same flags, height, width, pitch_or_linear_size, depth, mipmap_count,
\* pixel format record, caps1 and caps2 as the header that was read.
C8_HeaderRoundTrip ==
    (pc = "rewritten" /\ header.variant = "Legacy" /\ DDSHeader_format(header).tag = "Ok") =>
        \A f \in HeaderFields : outfile.header[f] = infile.header[f]

IsRenormalized == pc = "renormalized"

\* C28 (as claimed): a normalized header that is converted to the record and
\* back is the header it was, Legacy or DX10, of 1, 2 or 3 dimensions, with
\* any mips, faces and layers: the same dimensions (arity and depth), mips,
\* faces or is_cubemap, layers and format.
C28_NormalizedRoundTrip ==
    IsRenormalized => last.res.tag = "Ok" /\ last.res.val = header

(***************************************************************************)
(* The texture round trip: read_texture, then write_texture_args.          *)
(***************************************************************************)
InitIO ==
    /\ tex = NoTexture
    /\ last = Idle
    /\ pixel = NoPixel
    /\ \E n \in StreamLens : GivenReaderHeader(Stream(n))
    /\ header = NoDDSHeader
    /\ texture = NoTextureRead
    /\ cursor = StartCursor
    /\ outfile = NoOutput
    /\ calls = <<>>
    /\ iter = NoIter
    /\ pc = "start"

ReadTexture ==
    /\ pc = "start"
    /\ \E r \in read_texture(infile) :
          /\ IF r.tag = "Ok"
             THEN /\ header' = r.val.header
                  /\ texture' = r.val.texture
                  /\ cursor' = r.cur
                  /\ pc' = "texture"
             ELSE /\ UNCHANGED <<header, texture, cursor>>
                  /\ pc' = "read_failed"
          /\ calls' = <<Returned("read_texture", "", IF r.tag = "Ok" THEN "Ok" ELSE r.err)>>
    /\ UNCHANGED <<tex, last, pixel, infile, outfile, iter>>

WriteTexture(mode) ==
    /\ pc = "texture"
    /\ \E w \in write_texture_args(texture, mode) :
          IF w.tag = "Ok"
          THEN /\ outfile' = [mode |-> mode, header |-> w.val.header, data |-> w.val.data]
               /\ pc' = "written"
          ELSE /\ outfile' = [mode |-> mode, header |-> <<>>, data |-> <<>>]
               /\ pc' = "write_failed"
    /\ UNCHANGED <<tex, last, pixel, infile, header, texture, cursor, calls, iter>>

NextIO ==
    \/ ReadTexture
    \/ \E mode \in DDSHeaderMode : WriteTexture(mode)

SpecIO == InitIO /\ [][NextIO]_vars

(***************************************************************************)
(* Properties of the texture round trip.                                   *)
(***************************************************************************)
RECURSIVE HalveK(_, _)
HalveK(d, k) == IF k = 0 THEN d ELSE HalveK(Halve(d), k - 1)

\* the number of mip levels down to the all-ones one
RECURSIVE ChainLen(_)
ChainLen(d) == IF \A a \in DOMAIN d : d[a] <= 1 THEN 1 ELSE 1 + ChainLen(Halve(d))

\* the faces of fs in the order +X, -X, +Y, -Y, +Z, -Z
CanonicalFaces(fs) == SelectSeq(CubeFaceVariants, LAMBDA f : f \in SeqRange(fs))

\* what the header that was read describes: layers, faces, mip levels
LayerCount == IF DDSHeader_layers(header) = None THEN 1 ELSE DDSHeader_layers(header)[1]
FaceList == IF DDSHeader_faces(header) = None THEN None
            ELSE Some(CanonicalFaces(DDSHeader_faces(header)[1]))
FaceCount == IF FaceList = None THEN 1 ELSE Len(FaceList[1])
MipCount == IF DDSHeader_mips(header) = None THEN 1
            ELSE Min(DDSHeader_mips(header)[1], ChainLen(DDSHeader_dimensions(header)))
SurfaceCount == LayerCount * FaceCount * MipCount

\* the i-th surface of the file, layer-major, then face, then mip
SlotLayer(i) == (i - 1) \div (FaceCount * MipCount)
SlotFace(i) == ((i - 1) \div MipCount) % FaceCount
SlotMip(i) == (i - 1) % MipCount
SlotDims(i) == HalveK(DDSHeader_dimensions(header), SlotMip(i))
SlotSize(i) == size_for(texture.format, SlotDims(i))
RECURSIVE SlotOffset(_)
SlotOffset(i) == IF i = 1 THEN 0 ELSE SlotOffset(i - 1) + SlotSize(i - 1)

\* the node of layer l, face f and mip level k of the tree
RECURSIVE SurfaceAt(_, _, _, _)
SurfaceAt(t, l, f, k) ==
    CASE t.kind = "Array" -> SurfaceAt(t.ch[l + 1], l, f, k)
      [] t.kind = "CubeMap" ->
            SurfaceAt(t.ch[CHOOSE i \in DOMAIN t.keys : t.keys[i] = f[1]], l, f, k)
      [] t.kind = "MipMap" -> SurfaceAt(t.ch[k + 1], l, f, k)
      [] OTHER -> t

\* the kinds of the nodes from the root down to the first surface
RECURSIVE KindPath(_)
KindPath(t) == IF Len(t.ch) = 0 THEN <<t.kind>> ELSE <<t.kind>> \o KindPath(first_inner(t))

ExpectedKindPath ==
    (IF DDSHeader_layers(header) = None THEN <<>> ELSE <<"Array">>)
        \o (IF DDSHeader_faces(header) = None THEN <<>> ELSE <<"CubeMap">>)
        \o (IF DDSHeader_mips(header) = None THEN <<>> ELSE <<"MipMap">>)
        \o <<"Surface">>

\* the part of the input after the header that holds the surfaces
SurfaceRegion == SubSeq(infile.data, 1, SlotOffset(SurfaceCount + 1))

\* C9: a texture that was read and is written with the default header mode
\* (PreferLegacy) is written, and the surface data written is byte for byte
\* the surface data of the input: the same surfaces, in the same order, of
\* the same lengths.
C9_TextureRoundTrip ==
    (pc \in {"written", "write_failed"} /\ outfile.mode = PreferLegacy) =>
        /\ pc = "written"
        /\ outfile.data = SurfaceRegion

\* a cube map of two faces with at least two mip levels each was read and
\* written with the default header mode
C9_Witness ==
    /\ pc = "written" /\ outfile.mode = PreferLegacy
    /\ FaceCount = 2 /\ MipCount >= 2
    /\ Len(outfile.data) > 0

\* C10: a successful read does one read per surface, in the order layer,
\* then face (+X, -X, +Y, -Y, +Z, -Z), then mip level from the largest down;
\* each read starts where the one before ended, the first right after the
\* header, and takes size_for(the mip level's dimensions) bytes; the read ends
\* right after the last surface; the tree is Array(CubeMap(MipMap(Surface)))
\* with the levels the header does not have left out, and every surface has
\* the dimensions of its mip level and the bytes of its place in the file.
C10_ReadOrder ==
    pc = "texture" =>
        /\ Len(cursor.reads) = SurfaceCount
        /\ \A i \in 1..SurfaceCount : cursor.reads[i] = <<SlotOffset(i), SlotSize(i)>>
        /\ cursor.pos = SlotOffset(SurfaceCount + 1)
        /\ KindPath(texture.surfaces) = ExpectedKindPath
        /\ \A i \in 1..SurfaceCount :
              LET f == IF FaceList = None THEN None ELSE Some(FaceList[1][SlotFace(i) + 1])
                  s == SurfaceAt(texture.surfaces, SlotLayer(i), f, SlotMip(i))
              IN  /\ s.kind = "Surface"
                  /\ s.dims = SlotDims(i)
                  /\ Len(s.buf) = size_for(texture.format, s.dims)
                  /\ s.buf = SubSeq(infile.data, SlotOffset(i) + 1, SlotOffset(i) + SlotSize(i))

\* a cube map of two faces with at least two mip levels each was read, and
\* bytes of the stream are left after the last surface
C10_Witness ==
    /\ pc = "texture"
    /\ FaceCount = 2 /\ MipCount >= 2
    /\ cursor.pos > 0 /\ cursor.pos < Len(infile.data)

(***************************************************************************)
(* Building a header for a texture: DDSHeader::from_texture_args on a      *)
(* texture of any shape, in every mode.                                    *)
(***************************************************************************)
\* the subsequences of CubeFaceVariants that have at least one face
FaceLists ==
    {SelectSeq(CubeFaceVariants, LAMBDA f : f \in fs) : fs \in (SUBSET SeqRange(CubeFaceVariants)) \ {{}}}

\* the textures a header is built for: a surface or a full mip chain, in a
\* cube map of any faces or in none, in an array of up to MaxLayers + 1
\* layers or in none; formats of every kind
GivenMips == {Surface(<<2, 2>>, <<>>), MipMap(<<Surface(<<2, 2>>, <<>>), Surface(<<1, 1>>, <<>>)>>)}
GivenCubes == GivenMips \cup {CubeMap(ks, [i \in DOMAIN ks |-> m]) : ks \in FaceLists, m \in GivenMips}
GivenSurfaces == GivenCubes \cup {Array([i \in 1..n |-> c]) : n \in 1..(MaxLayers + 1), c \in GivenCubes}
GivenFormats ==
    {FormatBC("BC1", FALSE), FormatBC("BC3", TRUE), FormatBC("BC5", TRUE),
     FormatUncompressed(3, RGB(RGBMasks[1], RGBMasks[2], RGBMasks[3], FALSE), Opaque)}

InitFor ==
    /\ tex = NoTexture
    /\ last = Idle
    /\ pixel = NoPixel
    /\ infile = NoFile
    /\ header = NoDDSHeader
    /\ texture \in {Texture(f, s) : f \in GivenFormats, s \in GivenSurfaces}
    /\ cursor = StartCursor
    /\ outfile = NoOutput
    /\ calls = <<>>
    /\ iter = NoIter
    /\ pc = "given"

\* ContainerHeader::for_texture_args: the attempts return, then the call
ForTextureArgs(mode) ==
    /\ pc = "given"
    /\ \E a \in FromTextureArgsAttempts(texture, mode) :
          /\ calls' = Append(a.calls, Returned("from_texture_args", mode, a.res))
          /\ IF a.res.tag = "Ok"
             THEN header' = a.res.val /\ pc' = "built"
             ELSE header' = header /\ pc' = "build_failed"
    /\ UNCHANGED <<tex, last, pixel, infile, texture, cursor, outfile, iter>>

NextFor == \E mode \in DDSHeaderMode : ForTextureArgs(mode)

SpecFor == InitFor /\ [][NextFor]_vars

(***************************************************************************)
(* Properties of building a header.                                        *)
(***************************************************************************)
\* the result of the attempt op, if it was made
Tried(op) == \E i \in DOMAIN calls : calls[i].op = op
ResultOf(op) == calls[CHOOSE i \in DOMAIN calls : calls[i].op = op].res
ModeGiven == calls[Len(calls)].arg
HeaderResult == calls[Len(calls)].res
HeaderBuilt == pc \in {"built", "build_failed"}

GivenArray == texture.surfaces.kind = "Array"
GivenCubeNode == IF GivenArray THEN texture.surfaces.ch[1] ELSE texture.surfaces
GivenCube == GivenCubeNode.kind = "CubeMap"
GivenFaceCount == IF GivenCube THEN Len(GivenCubeNode.keys) ELSE 0
GivenMipNode == IF GivenCube THEN GivenCubeNode.ch[1] ELSE GivenCubeNode
GivenMipCount == IF GivenMipNode.kind = "MipMap" THEN Some(Len(GivenMipNode.ch)) ELSE None

\* C12: the legacy attempt succeeds exactly when the texture has no array
\* (its format always has a PixelFormat), whatever faces its cube map has,
\* and gives Legacy { dimensions, mips, faces, format }; it fails with
\* Capability otherwise.  The DX10 attempt fails with Capability when the
\* cube map has fewer than six faces; otherwise it fails only for a format
\* without a DXGI code, and the header it gives has is_cubemap exactly when
\* there is a cube map (of six faces) and the layer count of the texture.
C12_HeaderForTexture ==
    HeaderBuilt =>
        /\ Tried("for_texture_legacy") =>
              LET r == ResultOf("for_texture_legacy")
              IN  /\ r.tag = "Ok" <=> ~GivenArray
                  /\ r.tag = "Err" => r.err = "Capability"
                  /\ r.tag = "Ok" =>
                        /\ r.val.variant = "Legacy"
                        /\ r.val.dimensions = <<2, 2>>
                        /\ r.val.mips = GivenMipCount
                        /\ r.val.faces = (IF GivenCube THEN Some(GivenCubeNode.keys) ELSE None)
                        /\ Ok(r.val.format) = PixelFormatTryFrom(texture.format)
        /\ Tried("for_texture_dx10") =>
              LET r == ResultOf("for_texture_dx10")
              IN  /\ (GivenCube /\ GivenFaceCount < 6) => r = Err("Capability")
                  /\ ~(GivenCube /\ GivenFaceCount < 6) =>
                        /\ r.tag = "Err" => r.err = "Format"
                        /\ r.tag = "Ok" =>
                              /\ r.val.variant = "DX10"
                              /\ r.val.is_cubemap = (GivenCube /\ GivenFaceCount = 6)
                              /\ r.val.layers = (IF GivenArray THEN Some(Len(texture.surfaces.ch))
                                                 ELSE None)
                              /\ r.val.mips = GivenMipCount
                              /\ r.val.dimensions = <<2, 2>>

\* a DX10 header was built for an array of two complete cube maps
C12_Witness ==
    /\ pc = "built" /\ ModeGiven = ForceDX10
    /\ GivenArray /\ Len(texture.surfaces.ch) = 2
    /\ GivenFaceCount = 6
    /\ header.is_cubemap /\ header.layers = Some(2)

(***************************************************************************)
(* Properties of the header that was read.                                 *)
(***************************************************************************)
\* C13: the header read has mips = Some(mipmap_count) exactly when the
\* record has the MipmapCount flag or a mipmap_count above 1, and mips = None
\* otherwise.
C13_MipsNormalized ==
    pc = "header" =>
        /\ ("MipmapCount" \in infile.header.flags \/ infile.header.mipmap_count > 1)
              => header.mips = Some(infile.header.mipmap_count)
        /\ ("MipmapCount" \notin infile.header.flags /\ infile.header.mipmap_count <= 1)
              => header.mips = None

\* a header without the flag and with a count of 2 was read
C13_Witness ==
    /\ pc = "header"
    /\ "MipmapCount" \notin infile.header.flags /\ infile.header.mipmap_count = 2
    /\ header.mips = Some(2)

\* C14 (as claimed): a header with the MipmapCount flag and a mipmap_count
\* of 0 has no mips: its mips() accessor gives None.
C14_ZeroCountIsNoMips ==
    (/\ pc = "header"
     /\ "MipmapCount" \in infile.header.flags /\ infile.header.mipmap_count = 0)
        => DDSHeader_mips(header) = None

(***************************************************************************)
(* Dimensions and sizes: a list of integers is made a Dimensions, which is *)
(* then asked for its mip chain and for the size of a surface.             *)
(***************************************************************************)
\* u32 arithmetic.  A multiplication whose product does not fit 32 bits
\* panics where overflow checks are compiled in (debug builds) and keeps the
\* low 32 bits where they are not (release builds).
U32Half == 65536
U32MaxHalved == 2147483647

\* the largest b with a * b < 2^32, for a >= 2: floor((2^32 - 1) / a)
U32MaxDiv(a) == 2 * (U32MaxHalved \div a) + ((2 * (U32MaxHalved % a)) + 1) \div a
MulOverflows(a, b) == a >= 2 /\ b > U32MaxDiv(a)

\* the low 32 bits of a * b, by 16-bit halves: the product of the low
\* halves, and bits 16..31 of the whole
MulLow(a, b) == (a % U32Half) * (b % U32Half)
MulMid(a, b) ==
    ((((a \div U32Half) * (b % U32Half)) % U32Half)
        + (((a % U32Half) * (b \div U32Half)) % U32Half)
        + (MulLow(a, b) \div U32Half)) % U32Half
WrappingMul(a, b) == (MulMid(a, b) * U32Half) + (MulLow(a, b) % U32Half)

\* values are followed up to 2^31 - 1: a multiplication is followed when its
\* result, exact or wrapped, is one
MulFollowed(a, b) ==
    IF a = 0 THEN TRUE
    ELSE IF ~MulOverflows(a, b) THEN b <= U32MaxHalved \div a
    ELSE IF a % U32Half # 0 /\ b % U32Half > U32MaxHalved \div (a % U32Half) THEN FALSE
    ELSE MulMid(a, b) < U32Half \div 2

\* a value that is the low 32 bits of a product that did not fit
Wrapped(v) == [tag |-> "Wrapped", err |-> "", val |-> v]
\* a number returned, kept as a list of one value
Boxed(r) == [r EXCEPT !.val = <<r.val>>]

\* acc * x as the iterator's product::<u32>() multiplies
MulU32(acc, x, overflow_checks) ==
    IF acc.tag = "Panic" THEN acc
    ELSE IF ~MulOverflows(acc.val, x) THEN [acc EXCEPT !.val = acc.val * x]
    ELSE IF overflow_checks THEN Panic("attempt to multiply with overflow")
    ELSE Wrapped(WrappingMul(acc.val, x))

\* Dimensions::product in u32: the product of the first n axes
RECURSIVE ProductU32(_, _, _)
ProductU32(d, n, overflow_checks) ==
    IF n = 0 THEN Ok(1)
    ELSE MulU32(ProductU32(d, n - 1, overflow_checks), d[n], overflow_checks)
product_u32(d, overflow_checks) == ProductU32(d, Len(d), overflow_checks)

\* Format::size_for in usize (64 bits), over the u32 product: the factor
\* and the axes whose product it multiplies
SizeFactor(format) ==
    CASE format.tag \in {"BC1", "BC4"} -> 8
      [] format.tag \in {"BC2", "BC3", "BC5"} -> 16
      [] OTHER -> format.pitch
SizeAxes(format, d) ==
    IF format.tag = "Uncompressed" THEN d ELSE blocks(d, <<4, 4>>)
size_for_usize(format, d, overflow_checks) ==
    LET p == product_u32(SizeAxes(format, d), overflow_checks)
    IN  IF p.tag = "Panic" THEN p ELSE [p EXCEPT !.val = SizeFactor(format) * p.val]

RECURSIVE ProductFollowed(_, _)
ProductFollowed(d, n) ==
    IF n = 0 THEN TRUE
    ELSE IF ~ProductFollowed(d, n - 1) THEN FALSE
    ELSE MulFollowed(ProductU32(d, n - 1, FALSE).val, d[n])
SizeFollowed(format, d) ==
    LET axes == SizeAxes(format, d)
    IN  IF ~ProductFollowed(axes, Len(axes)) THEN FALSE
        ELSE /\ ~MulOverflows(SizeFactor(format), product_u32(axes, FALSE).val)
             /\ MulFollowed(SizeFactor(format), product_u32(axes, FALSE).val)

\* the values given: small ones, and one of 2^16
BigAxis == U32Half
AxisValues == (0..MaxAxis) \cup {BigAxis}
GivenValues == SeqsUpTo(AxisValues, MaxArity)
SizedFormats ==
    {FormatBC(t, FALSE) : t \in {"BC1", "BC2", "BC3", "BC4", "BC5"}}
        \cup {FormatUncompressed(p, ColorNone, Opaque) : p \in 1..MaxPitch}

InitDim ==
    /\ tex = NoTexture
    /\ last \in {Call("given", v, <<>>, NoIndex, NoneT) : v \in GivenValues}
    /\ pixel = NoPixel
    /\ infile = NoFile
    /\ header = NoDDSHeader
    /\ texture = NoTextureRead
    /\ cursor = StartCursor
    /\ outfile = NoOutput
    /\ calls = <<>>
    /\ iter = NoIter
    /\ pc = "dimensions"

\* Dimensions::try_from(&value[..])
DimTryFrom ==
    /\ last.op = "given"
    /\ last' = Call("try_from", last.args, <<>>, NoIndex, DimensionsTryFrom(last.args))
    /\ UNCHANGED <<tex, pixel, iter>>
    /\ UNCHANGED ddsvars

HasDimensions == last.op = "try_from" /\ last.res.tag = "Ok"

\* dimensions.product()
DimProduct ==
    /\ HasDimensions
    /\ ProductFollowed(last.res.val, Len(last.res.val))
    /\ \E overflow_checks \in BOOLEAN :
          last' = Call("product", last.res.val, <<>>, NoIndex,
                       Boxed(product_u32(last.res.val, overflow_checks)))
    /\ UNCHANGED <<tex, pixel, iter>>
    /\ UNCHANGED ddsvars

\* format.size_for(dimensions)
DimSizeFor ==
    /\ HasDimensions
    /\ \E format \in SizedFormats, overflow_checks \in BOOLEAN :
          /\ SizeFollowed(format, last.res.val)
          /\ last' = Call("size_for", <<format, last.res.val>>, <<>>, NoIndex,
                          Boxed(size_for_usize(format, last.res.val, overflow_checks)))
    /\ UNCHANGED <<tex, pixel, iter>>
    /\ UNCHANGED ddsvars

\* (a halving that does not stop at 1)
NextMip_no_floor(current) ==
    IF \A i \in DOMAIN current : current[i] <= 1 THEN None
    ELSE Some([i \in DOMAIN current |-> current[i] \div 2])

\* MipDimensionIterator::next: what self.current becomes when it was Some
NextMip(current) ==
    IF \A i \in DOMAIN current : current[i] <= 1 THEN None
    ELSE Some([i \in DOMAIN current |-> Max(current[i] \div 2, 1)])

\* dimensions.mips(): a new iterator, at the dimensions themselves
DimMips ==
    /\ HasDimensions
    /\ last' = Call("mips", last.res.val, <<>>, NoIndex, NoneT)
    /\ iter' = MipDimensionIterator(Some(last.res.val), <<>>, FALSE, <<>>)
    /\ UNCHANGED <<tex, pixel>>
    /\ UNCHANGED ddsvars

\* MipDimensionIterator::next, called until it returns None
MipNext ==
    /\ last.op = "mips"
    /\ ~iter.done
    /\ IF iter.current = None
       THEN iter' = [iter EXCEPT !.done = TRUE, !.runs = Append(@, iter.yielded)]
       ELSE iter' = [iter EXCEPT !.current = NextMip(iter.current[1]),
                                 !.yielded = Append(@, iter.current[1])]
    /\ UNCHANGED <<tex, last, pixel>>
    /\ UNCHANGED ddsvars

\* dimensions.mips() of the same dimensions, once more
MipsAgain ==
    /\ last.op = "mips"
    /\ iter.done
    /\ Len(iter.runs) < MaxRuns
    /\ iter' = MipDimensionIterator(Some(last.args), <<>>, FALSE, iter.runs)
    /\ UNCHANGED <<tex, last, pixel>>
    /\ UNCHANGED ddsvars

NextDim == DimTryFrom \/ DimProduct \/ DimSizeFor \/ DimMips \/ MipNext \/ MipsAgain

SpecDim == InitDim /\ [][NextDim]_vars

\* the caller of next runs on until it is given None
SpecDimLive == SpecDim /\ WF_vars(MipNext)

(***************************************************************************)
(* Properties of Dimensions.                                               *)
(***************************************************************************)
IsDimTryFrom == pc = "dimensions" /\ last.op = "try_from"

\* C15 (as claimed): a Dimensions is made only of exactly 1, 2 or 3 values
\* that are all positive; a list of another length is rejected with the
\* dimensionality error, a zero among the first three values with the
\* invalid error that names its axis.
C15_OneToThreePositive ==
    IsDimTryFrom =>
        LET v == last.args
            positive == \A i \in DOMAIN v : v[i] > 0
        IN  /\ last.res.tag = "Ok" <=> (Len(v) \in 1..3 /\ positive)
            /\ (Len(v) \notin 1..3 /\ positive) => last.res = Err("Dimensionality")
            /\ \A i \in 1..3 :
                  (i <= Len(v) /\ v[i] = 0 /\ \A j \in 1..(i - 1) : v[j] # 0)
                      => last.res = Err(InvalidAxis[i])

IsProduct == pc = "dimensions" /\ last.op = "product"
IsSizeFor == pc = "dimensions" /\ last.op = "size_for"

\* C16 (as claimed): for any u32 axes, Dimensions::product and
\* Format::size_for return a value, and no multiplication of theirs
\* overflows 32 bits.
C16_NoOverflow ==
    (IsProduct \/ IsSizeFor) => last.res.tag = "Ok"

CeilDiv(a, b) == (a \div b) + (IF a % b = 0 THEN 0 ELSE 1)

\* C17: size_for is 8 * ceil(w/4) * ceil(h/4) * d for BC1 and BC4, 16 times
\* the same for BC2, BC3 and BC5, and pitch * w * h * d for Uncompressed,
\* an axis the Dimensions does not have counting as 1; blocks divides each
\* axis by the block's, rounding up, a missing block axis counting as 1.
C17_SizeFor ==
    (IsSizeFor /\ last.res.tag = "Ok") =>
        LET format == last.args[1]
            d == last.args[2]
            w == d[1]
            h == IF Len(d) >= 2 THEN d[2] ELSE 1
            z == IF Len(d) >= 3 THEN d[3] ELSE 1
            bs == blocks(d, <<4, 4>>)
        IN  /\ format.tag \in {"BC1", "BC4"}
                => last.res.val[1] = 8 * CeilDiv(w, 4) * CeilDiv(h, 4) * z
            /\ format.tag \in {"BC2", "BC3", "BC5"}
                => last.res.val[1] = 16 * CeilDiv(w, 4) * CeilDiv(h, 4) * z
            /\ format.tag = "Uncompressed"
                => last.res.val[1] = format.pitch * w * h * z
            /\ Len(bs) = Max(Len(d), 2)
            /\ bs[1] = CeilDiv(w, 4) /\ bs[2] = CeilDiv(h, 4)
            /\ Len(d) = 3 => bs[3] = z
            /\ last.res.val[1] = size_for(format, d)

\* the size of a 3D and of a 1D surface whose axes are no multiples of 4
C17_Witness ==
    /\ IsSizeFor /\ last.res.tag = "Ok"
    /\ last.args[1].tag = "BC1"
    /\ last.args[2] \in {<<5, 3, 2>>, <<5>>}

IsMips == pc = "dimensions" /\ last.op = "mips"

\* the chain of d in closed form: as many elements as the largest axis has
\* binary digits, axis a of element k being d[a] / 2^(k-1), at least 1
LargestAxis(d) == CHOOSE m \in {d[a] : a \in DOMAIN d} : \A a \in DOMAIN d : d[a] <= m
BinaryDigits(x) == 1 + (CHOOSE n \in 0..30 : 2^n <= x /\ x \div 2 < 2^n)
FullChain(d) ==
    [k \in 1..BinaryDigits(LargestAxis(d)) |->
        [a \in DOMAIN d |-> Max(d[a] \div 2^(k - 1), 1)]]

MipsAsChain ==
    IsMips =>
        LET d == last.args
            full == FullChain(d)
            n == Len(iter.yielded)
        IN  /\ full[1] = d
            /\ \A k \in 1..Len(full) : (\A a \in DOMAIN d : full[k][a] = 1) <=> k = Len(full)
            /\ (\A a \in DOMAIN d : d[a] = 1) => Len(full) = 1
            /\ n <= Len(full) /\ iter.yielded = SubSeq(full, 1, n)
            /\ IF n < Len(full) THEN iter.current = Some(full[n + 1]) /\ ~iter.done
               ELSE iter.current = None
            /\ \A r \in DOMAIN iter.runs : iter.runs[r] = full

\* C18: the iterator of Dimensions::mips yields the dimensions themselves,
\* then each time every axis halved (rounding down, at least 1), the first
\* element whose axes are all 1 being the last; dimensions that are all 1
\* give that one element; it always comes to its end, and a second mips()
\* of the same dimensions yields the same sequence.
C18_MipsTerminate ==
    /\ []MipsAsChain
    /\ (IsMips /\ ~iter.done) ~> (IsMips /\ iter.done)

\* the chain of 4x2 was run through twice, and that of 1x1x1 once
C18_Witness ==
    /\ IsMips /\ iter.done
    /\ \/ last.args = <<4, 2>> /\ iter.runs = <<FullChain(<<4, 2>>), FullChain(<<4, 2>>)>>
       \/ last.args = <<1, 1, 1>> /\ iter.runs = <<<< <<1, 1, 1>> >>>>

IsIterFaces == last.op = "iter_faces" /\ last.res.tag = "Ok"
IsFaces == last.op = "faces" /\ last.res.tag = "Some"
\* the faces yielded, in the order they were yielded in
FacesYielded ==
    IF IsFaces THEN last.res.val
    ELSE [i \in DOMAIN last.res.val |-> last.res.val[i].key[1]]

\* C19 (as claimed): iter_faces and faces() of a texture with a cube map
\* give each face the cube map has exactly once, in the order +X, -X, +Y,
\* -Y, +Z, -Z, whatever order the faces were inserted in.
C19_FacesInCanonicalOrder ==
    ((IsIterFaces \/ IsFaces) /\ faces(last.args[1]) # None) =>
        /\ {FacesYielded[i] : i \in DOMAIN FacesYielded}
              = {faces(last.args[1])[1][i] : i \in DOMAIN faces(last.args[1])[1]}
        /\ \A i, j \in DOMAIN FacesYielded :
              i < j => cubemap_order(FacesYielded[i]) < cubemap_order(FacesYielded[j])

\* a DX10 header was read; the u32 of its misc flags
IsDX10Read == pc = "header" /\ header.variant = "DX10" /\ infile.header.dx10_header # None
MiscFlagsRead == infile.header.dx10_header[1].cube

\* C20 (as claimed): a DX10 header has is_cubemap exactly when bit 0x4 of
\* the misc flags read is set, whatever the other bits are, and a DX10
\* header with is_cubemap reports all six faces.
C20_CubeBit ==
    IsDX10Read =>
        /\ header.is_cubemap <=> (MiscFlagsRead \div 4) % 2 = 1
        /\ header.is_cubemap => DDSHeader_faces(header) = Some(CubeFaceVariants)

IsRewritten == pc = "rewritten"
\* the faces of the header that was written: those of a legacy header, all
\* six for a DX10 header of a cube map
FacesWritten ==
    IF header.variant = "Legacy" THEN header.faces
    ELSE IF header.is_cubemap
    THEN Some(<<PositiveX, NegativeX, PositiveY, NegativeY, PositiveZ, NegativeZ>>)
    ELSE None

\* C21: the record written for a header has caps1.Texture, caps1.Complex
\* exactly with faces, mips or layers, caps1.Mipmap and the MipmapCount flag
\* exactly with mips, and in caps2 Cubemap with exactly the bits of the
\* faces of the header (all six for a DX10 cube map), or nothing.
C21_CapsReencoded ==
    IsRewritten =>
        LET o == outfile.header
        IN  /\ "Texture" \in o.caps1
            /\ "Complex" \in o.caps1
                  <=> (FacesWritten # None \/ header.mips # None \/ header.layers # None)
            /\ "Mipmap" \in o.caps1 <=> header.mips # None
            /\ "MipmapCount" \in o.flags <=> header.mips # None
            /\ o.caps1 \subseteq {"Texture", "Complex", "Mipmap"}
            /\ IF FacesWritten = None THEN o.caps2 = {}
               ELSE o.caps2 = {"Cubemap"} \cup
                       {from_cubemap_face(FacesWritten[1][i]) : i \in DOMAIN FacesWritten[1]}

\* a DX10 cube map of two layers without mips, and a legacy cube map of one
\* face, were written
C21_Witness ==
    /\ IsRewritten
    /\ \/ header.variant = "DX10" /\ header.is_cubemap /\ header.layers = Some(2)
             /\ header.mips = None /\ Cardinality(outfile.header.caps2) = 7
       \/ header.variant = "Legacy" /\ header.faces # None /\ Len(header.faces[1]) = 1
             /\ header.mips = None /\ "Complex" \in outfile.header.caps1

\* C22: the record written has pitch_or_linear_size = pitch * width and the
\* Pitch flag without LinearSize for an uncompressed format, the size of
\* the surface and the LinearSize flag without Pitch for a block format,
\* and 0 with neither flag for a header whose format has no translation,
\* which is written all the same.
C22_SizeReencoded ==
    /\ pc = "header" => DDSHeaderIntermediateTryFrom(header).tag = "Ok"
    /\ IsRewritten =>
        LET o == outfile.header
            format == DDSHeader_format(header)
            d == header.dimensions
            w == d[1]
            h == IF Len(d) >= 2 THEN d[2] ELSE 1
            z == IF Len(d) >= 3 THEN d[3] ELSE 1
            factor == IF format.val.tag \in {"BC1", "BC4"} THEN 8 ELSE 16
        IN  IF format.tag # "Ok"
            THEN o.pitch_or_linear_size = 0 /\ o.flags \cap {"Pitch", "LinearSize"} = {}
            ELSE IF format.val.tag = "Uncompressed"
            THEN /\ o.pitch_or_linear_size = format.val.pitch * w
                 /\ o.flags \cap {"Pitch", "LinearSize"} = {"Pitch"}
            ELSE /\ o.pitch_or_linear_size = factor * CeilDiv(w, 4) * CeilDiv(h, 4) * z
                 /\ o.flags \cap {"Pitch", "LinearSize"} = {"LinearSize"}

\* a 4 wide header of 3 bytes a pixel was written with a pitch of 12
C22_Witness ==
    /\ IsRewritten
    /\ DDSHeader_format(header).tag = "Ok"
    /\ DDSHeader_format(header).val.tag = "Uncompressed"
    /\ DDSHeader_format(header).val.pitch = 3
    /\ header.dimensions[1] = 4
    /\ outfile.header.pitch_or_linear_size = 12

\* the header given is wrong in its magic, its size or its flags
WrongMagic == infile.header.magic # "DDS "
WrongSize == infile.header.size # 124
UnknownBits ==
    \/ ~(infile.header.flags \subseteq DDSFlags)
    \/ ~(infile.header.caps1 \subseteq Caps1)
    \/ ~(infile.header.caps2 \subseteq SeqRange(Caps2))

\* C23 (as claimed): a file whose magic is not 'DDS ', whose size field is
\* not 124, or that has an unknown bit in flags, caps1 or caps2, is
\* rejected with the Header error, and no texture is read from it.
C23_StrictConstants ==
    (pc # "start" /\ (WrongMagic \/ WrongSize \/ UnknownBits)) =>
        /\ pc = "read_failed"
        /\ texture = NoTextureRead
        /\ DDSHeaderIntermediateRead(infile.header) = Err("binrw")

\* a legacy header with the Cubemap bit was given; the faces its bits name
IsCubemapRead == pc # "start" /\ infile.header.dx10_header = None
                    /\ "Cubemap" \in infile.header.caps2
FaceBits == {c \in infile.header.caps2 : to_cubemap_face(c) # None}
FacesNamed == {to_cubemap_face(c)[1] : c \in FaceBits}
\* the header is one whose read comes to the surfaces
SurfacesReached ==
    LET raw == DDSHeaderIntermediateRead(infile.header)
        h == DDSHeaderTryFrom(raw.val)
    IN  raw.tag = "Ok" /\ h.tag = "Ok" /\ DDSHeader_format(h.val).tag = "Ok"
\* the header as it is normalized
Normalized == DDSHeaderTryFrom(DDSHeaderIntermediateRead(infile.header).val)

\* C24: a legacy header with the Cubemap bit and no face bit has the faces
\* Some(empty list), and reading its texture fails with Empty("cube"); with
\* k face bits, a texture that is read has exactly those k faces.
C24_EmptyCube ==
    (IsCubemapRead /\ SurfacesReached) =>
        /\ Normalized.val.faces # None
        /\ SeqRange(Normalized.val.faces[1]) = FacesNamed
        /\ Len(Normalized.val.faces[1]) = Cardinality(FaceBits)
        /\ FaceBits = {} =>
              /\ Normalized.val.faces = Some(<<>>)
              /\ pc = "read_failed"
              /\ calls = <<Returned("read_texture", "", "Empty(cube)")>>
        /\ pc = "texture" =>
              /\ FaceBits # {}
              /\ faces(texture.surfaces) # None
              /\ SeqRange(faces(texture.surfaces)[1]) = FacesNamed
              /\ Len(faces(texture.surfaces)[1]) = Cardinality(FaceBits)

\* the read of a cube map without faces has failed
C24_Witness ==
    /\ IsCubemapRead /\ SurfacesReached
    /\ FaceBits = {}
    /\ pc = "read_failed"
    /\ calls = <<Returned("read_texture", "", "Empty(cube)")>>

====
